---- MODULE Spec2Model ----
(***************************************************************************)
(* The item tree of libpff (libpff/libpff_item_tree.c): the construction   *)
(* of the in-memory item tree from the descriptor index                    *)
(* (libpff_item_tree_create, _create_node, _create_leaf_node) and the      *)
(* lookup of nodes by descriptor identifier.                               *)
(*                                                                         *)
(* The recursion of the builder is an explicit stack of frames; one action *)
(* is one stretch of a function between two recursive calls.  Tree nodes   *)
(* and item descriptors live in two heaps indexed by address, so that      *)
(* handles, frees and standalone (orphan) nodes are what they are in C.    *)
(***************************************************************************)
EXTENDS Integers, Sequences, FiniteSets, TLC

VARIABLES
    index,                      \* the descriptor index: Seq of index tree nodes, 1 is its root
    root_node,                  \* item_tree->root_node (address, NULL when unset)
    nodes,                      \* heap of libcdata tree nodes
    descriptors,                \* heap of item descriptors
    orphan_node_list,           \* the caller's orphan node list: Seq of node addresses
    root_folder_item_tree_node, \* the caller's root folder handle
    stack,                      \* frames of create_node / create_leaf_node
    failing,                    \* TRUE while a callee's -1 travels up the stack
    state,                      \* "initialized", "building", "built", "failed"
    result,                     \* what libpff_item_tree_create returned (0: not yet)
    found,                      \* the last libpff_item_tree_get_node_by_identifier call
    call,                       \* the last call of a caller of the built tree: arguments and outcome
    fault,                      \* the libcdata call that fails in this run ("none": none)
    item_tree_reference         \* the caller's reference to the item tree (NULL or ItemTree)

vars == <<index, root_node, nodes, descriptors, orphan_node_list,
          root_folder_item_tree_node, stack, failing, state, result, found,
          call, fault,
                   item_tree_reference>>

----------------------------------------------------------------------------
(* Bounds of the model and constants of the program *)

MaxLeaves == 3
MaxId == 2
\* the largest index of which one node may be deleted or unreadable
MaxFlaggedLeaves == 2

\* The recursion bound of the builder and of the lookup.  libpff sets it to
\* 256; the model scales it down, keeping it above the depth any index of
\* MaxLeaves leaves without a parent cycle can reach (MaxLeaves + 1), as 256
\* is above the depth of every small index.
LIBPFF_MAXIMUM_ITEM_TREE_RECURSION_DEPTH == 4

NULL == 0

Ids == 0 .. MaxId

----------------------------------------------------------------------------
(* The descriptor index as the builder sees it through libfdata            *)

\* The 64-bit identifier of an index value is kept as two 32-bit words:
\* identifier (bits 0-31) and identifier_upper (bits 32-63).

IndexLeaf(position, identifier, parent_identifier) ==
    [ is_leaf |-> TRUE, sub_nodes |-> << >>, is_deleted |-> FALSE, readable |-> TRUE,
      identifier |-> identifier, identifier_upper |-> 0,
      parent_identifier |-> parent_identifier,
      data_identifier |-> 100 + position,
      local_descriptors_identifier |-> 200 + position,
      fails |-> "none" ]

IndexBranch(sub_nodes) ==
    [ is_leaf |-> FALSE, sub_nodes |-> sub_nodes, is_deleted |-> FALSE, readable |-> TRUE,
      identifier |-> 0, identifier_upper |-> 0, parent_identifier |-> 0,
      data_identifier |-> 0, local_descriptors_identifier |-> 0,
      fails |-> "none" ]

\* A root branch node with the leaves of `values' (a sequence of <<id, parent>>)
\* as its sub nodes, in that order: index node k + 1 is leaf k.
FlatIndex(values) ==
    << IndexBranch([k \in 1 .. Len(values) |-> k + 1]) >> \o
    [k \in 1 .. Len(values) |-> IndexLeaf(k, values[k][1], values[k][2])]

\* The same index with one node marked deleted or unreadable, or with one
\* leaf given an identifier of more than 32 bits (0: none).
Flagged(idx, n, kind) ==
    IF n = 0 THEN idx
    ELSE IF kind = "deleted" THEN [idx EXCEPT ![n].is_deleted = TRUE]
    ELSE IF kind = "unreadable" THEN [idx EXCEPT ![n].readable = FALSE]
    ELSE IF idx[n].is_leaf THEN [idx EXCEPT ![n].identifier_upper = 1]
    ELSE idx

FlagKinds == {"deleted", "unreadable", "overflow"}

\* The calls of the cursor that the builder makes at an index node, other
\* than the probe of the number of sub nodes ("node_value_missing": the call
\* returns 1 with a NULL value), and the same index with one of them failing
\* at node n.
CursorCalls ==
    {"is_deleted", "is_leaf", "get_sub_node_by_index", "get_node_value",
     "node_value_missing", "get_leaf_node_by_identifier"}

Failing(idx, n, cursor_call) == [idx EXCEPT ![n].fails = cursor_call]

\* The scenarios of the specification, and a chain one level deeper than
\* the recursion bound lets a lookup descend.
S1 == FlatIndex(<< <<1, 1>>, <<2, 1>>, <<3, 1>>, <<4, 2>> >>)
S2 == FlatIndex(<< <<4, 2>>, <<2, 1>>, <<1, 1>> >>)
S3 == FlatIndex(<< <<1, 1>>, <<7, 99>> >>)
S4 == FlatIndex(<< <<1, 1>>, <<5, 1>>, <<5, 1>> >>)
S5 == FlatIndex(<< <<10, 20>>, <<20, 30>> >>)
DeepChain ==
    FlatIndex([k \in 1 .. LIBPFF_MAXIMUM_ITEM_TREE_RECURSION_DEPTH + 1 |->
                 IF k = 1 THEN <<1, 1>> ELSE <<k, k - 1>>])

\* a leaf before its parent (which hangs under the synthetic root), and a
\* leaf whose parent is nowhere
ReadAheadAndOrphan == FlatIndex(<< <<2, 1>>, <<1, 0>>, <<7, 9>> >>)

\* an index of two levels: a branch that cannot be read (with two leaves
\* below it), a leaf under the synthetic root, and a branch with a leaf
UnreadableBranch ==
    << IndexBranch(<< 2, 5, 6 >>),
       [IndexBranch(<< 3, 4 >>) EXCEPT !.readable = FALSE],
       IndexLeaf(1, 1, 1), IndexLeaf(2, 2, 1),
       IndexLeaf(3, 3, 0),
       IndexBranch(<< 7 >>), IndexLeaf(4, 4, 3) >>

\* a chain of leaves, each before its parent, as long as the recursion
\* bound lets the read-ahead go
ReadAheadChain ==
    FlatIndex([k \in 1 .. LIBPFF_MAXIMUM_ITEM_TREE_RECURSION_DEPTH |->
                 IF k = LIBPFF_MAXIMUM_ITEM_TREE_RECURSION_DEPTH
                 THEN <<k, 0>> ELSE <<k, k + 1>>])

\* the index of two levels with all its nodes readable
TwoLevels == [UnreadableBranch EXCEPT ![2].readable = TRUE]

\* the index of two levels with its first branch marked deleted
DeletedBranch == [TwoLevels EXCEPT ![2].is_deleted = TRUE]

\* a chain as deep as the recursion bound, a leaf X next to it under the
\* synthetic root, a leaf whose parent P (a child of X) comes later, a leaf
\* that makes the chain one deeper, and P
DeepRevisit ==
    LET bound == LIBPFF_MAXIMUM_ITEM_TREE_RECURSION_DEPTH
    IN  FlatIndex([k \in 1 .. bound + 4 |->
                     IF k <= bound THEN <<k, k - 1>>
                     ELSE IF k = bound + 1 THEN <<bound + 1, 0>>
                     ELSE IF k = bound + 2 THEN <<bound + 3, bound + 2>>
                     ELSE IF k = bound + 3 THEN <<bound + 4, bound>>
                     ELSE <<bound + 2, bound + 1>>])

Scenarios ==
    {S1, S2, S3, S4, S5, DeepChain, ReadAheadAndOrphan, UnreadableBranch, ReadAheadChain,
     DeletedBranch, DeepRevisit}

Leaves(idx) == { n \in 1 .. Len(idx) : idx[n].is_leaf }

----------------------------------------------------------------------------
(* The cursor                                                              *)

\* libfdata_tree_node_get_number_of_sub_nodes: -1 when the node cannot be read
number_of_sub_nodes(n) ==
    IF index[n].readable THEN Len(index[n].sub_nodes) ELSE -1

\* libpff_index_tree_get_leaf_node_by_identifier: the first leaf of the index
\* that carries the identifier, NULL when there is none
get_leaf_node_by_identifier(identifier) ==
    LET hits == { n \in Leaves(index) : /\ index[n].identifier = identifier
                                         /\ index[n].identifier_upper = 0 }
    IN  IF hits = {} THEN NULL
        ELSE CHOOSE n \in hits : \A m \in hits : n <= m

----------------------------------------------------------------------------
(* libcdata tree nodes and item descriptors                                *)

DescriptorOf(n) == descriptors[nodes[n].value]
descriptor_identifier(n) == DescriptorOf(n).descriptor_identifier

\* libpff_item_descriptor_initialize
NewDescriptor(descriptor_id, data_id, local_descriptors_id, recovered, leaf) ==
    [ descriptor_identifier |-> descriptor_id, data_identifier |-> data_id,
      local_descriptors_identifier |-> local_descriptors_id,
      recovered |-> recovered, freed |-> 0, leaf |-> leaf ]

\* libcdata_tree_node_initialize followed by libcdata_tree_node_set_value
NewNode(value) ==
    [ value |-> value, parent_node |-> NULL, sub_nodes |-> << >>, freed |-> FALSE ]

\* libpff_item_descriptor_compare
libpff_item_descriptor_compare(first, second) ==
    IF first < second THEN "LESS"
    ELSE IF first > second THEN "GREATER"
    ELSE "EQUAL"

----------------------------------------------------------------------------
(* libcdata: insertion into and freeing of tree nodes                      *)

\* The scan of libcdata_tree_node_insert_node over the sub nodes of a parent:
\* the position before which the new node goes (Len + 1: at the end), or
\* 0 when an equal entry exists and unique entries are asked for.
RECURSIVE InsertScan(_, _, _, _)
InsertScan(sub_nodes, i, new_identifier, insert_flags) ==
    IF i > Len(sub_nodes) THEN i
    ELSE LET compare_result ==
                 libpff_item_descriptor_compare(
                     new_identifier, descriptor_identifier(sub_nodes[i]))
         IN  IF compare_result = "EQUAL" /\ "UNIQUE_ENTRIES" \in insert_flags THEN 0
             ELSE IF compare_result = "LESS" THEN i
             ELSE InsertScan(sub_nodes, i + 1, new_identifier, insert_flags)

InsertAt(sub_nodes, position, node) ==
    SubSeq(sub_nodes, 1, position - 1) \o << node >> \o
    SubSeq(sub_nodes, position, Len(sub_nodes))

\* libcdata_tree_node_insert_node( parent_node, node, compare, insert_flags ):
\* `ns' already holds `node'.  result 1: inserted, 0: an equal entry exists.
libcdata_tree_node_insert_node(ns, parent_node, node, new_identifier, insert_flags) ==
    LET position == InsertScan(ns[parent_node].sub_nodes, 1, new_identifier, insert_flags)
    IN  IF position = 0 THEN [result |-> 0, nodes |-> ns]
        ELSE [ result |-> 1,
               nodes  |-> [ns EXCEPT
                             ![parent_node].sub_nodes = InsertAt(@, position, node),
                             ![node].parent_node = parent_node] ]

\* libcdata_tree_node_insert_value( parent_node, value, compare, insert_flags ):
\* a new node is made for the value; it is freed again (without the value)
\* when it is not inserted.
libcdata_tree_node_insert_value(ns, parent_node, value, new_identifier, insert_flags) ==
    LET node == Len(ns) + 1
        with == Append(ns, [value |-> value, parent_node |-> NULL,
                            sub_nodes |-> << >>, freed |-> FALSE])
        r    == libcdata_tree_node_insert_node(with, parent_node, node,
                                               new_identifier, insert_flags)
    IN  IF r.result = 1 THEN r
        ELSE [result |-> r.result, nodes |-> [with EXCEPT ![node].freed = TRUE]]

RECURSIVE SubTree(_, _)
SubTree(ns, n) ==
    {n} \cup UNION { SubTree(ns, ns[n].sub_nodes[i]) : i \in 1 .. Len(ns[n].sub_nodes) }

\* libpff_item_descriptor_free on each descriptor of `values'
FreeDescriptors(ds, values) ==
    [d \in DOMAIN ds |-> IF d \in values THEN [ds[d] EXCEPT !.freed = @ + 1] ELSE ds[d]]

\* libcdata_tree_node_free( &node, value_free_function ): refuses a node that
\* is connected to other nodes; otherwise frees the node and its sub nodes
\* (and their values when a free function is given) and resets the reference.
libcdata_tree_node_free(ns, ds, node, free_values) ==
    IF node = NULL
    THEN [result |-> 1, nodes |-> ns, descriptors |-> ds, node |-> NULL]
    ELSE IF ns[node].parent_node # NULL
    THEN [result |-> -1, nodes |-> ns, descriptors |-> ds, node |-> node]
    ELSE LET gone   == SubTree(ns, node)
             values == { ns[m].value : m \in gone } \ {NULL}
         IN  [ result |-> 1,
               nodes  |-> [m \in DOMAIN ns |->
                             IF m \in gone THEN [ns[m] EXCEPT !.freed = TRUE] ELSE ns[m]],
               descriptors |-> IF free_values THEN FreeDescriptors(ds, values) ELSE ds,
               node   |-> NULL ]

----------------------------------------------------------------------------
(* libpff_item_tree_get_tree_node_by_identifier                            *)

\* How the caller passes result_item_tree_node: NULL_POINTER is a NULL
\* pointer, NULL a pointer to an unset reference, an address a set one.
NULL_POINTER == -1

\* the address of the one item tree of the model; root_node is its field
ItemTree == 1

RECURSIVE libpff_item_tree_get_tree_node_by_identifier(_, _, _, _)
RECURSIVE TraverseSubNodes(_, _, _, _, _)

\* a faulty variant of the search below: below the recursion bound it gives
\* up with 0, as if the identifier were not there
NotFoundBelowBound(item_tree_node, item_identifier, result_item_tree_node, recursion_depth) ==
    IF item_tree_node = NULL
    THEN [result |-> -1, node |-> result_item_tree_node]
    ELSE IF recursion_depth < 0
    THEN [result |-> -1, node |-> result_item_tree_node]
    ELSE IF recursion_depth > LIBPFF_MAXIMUM_ITEM_TREE_RECURSION_DEPTH
    THEN [result |-> 0, node |-> result_item_tree_node]
    ELSE IF nodes[item_tree_node].value = NULL
    THEN [result |-> -1, node |-> result_item_tree_node]
    ELSE IF descriptor_identifier(item_tree_node) = item_identifier
    THEN IF result_item_tree_node # NULL
         THEN [result |-> -1, node |-> result_item_tree_node]
         ELSE [result |-> 1, node |-> item_tree_node]
    ELSE TraverseSubNodes(nodes[item_tree_node].sub_nodes, 1, item_identifier,
                          result_item_tree_node, recursion_depth)

libpff_item_tree_get_tree_node_by_identifier(item_tree_node, item_identifier, result_item_tree_node, recursion_depth) ==
    IF item_tree_node = NULL
    THEN [result |-> -1, node |-> result_item_tree_node]
    ELSE IF \/ recursion_depth < 0
            \/ recursion_depth > LIBPFF_MAXIMUM_ITEM_TREE_RECURSION_DEPTH
    THEN [result |-> -1, node |-> result_item_tree_node]
    ELSE IF nodes[item_tree_node].value = NULL
    THEN [result |-> -1, node |-> result_item_tree_node]
    ELSE IF descriptor_identifier(item_tree_node) = item_identifier
    THEN IF result_item_tree_node = NULL_POINTER
         THEN [result |-> -1, node |-> result_item_tree_node]
         ELSE IF result_item_tree_node # NULL
         THEN [result |-> -1, node |-> result_item_tree_node]
         ELSE [result |-> 1, node |-> item_tree_node]
    ELSE TraverseSubNodes(nodes[item_tree_node].sub_nodes, 1, item_identifier,
                          result_item_tree_node, recursion_depth)

RECURSIVE LastSubNodeFirst(_, _, _, _, _)

\* a faulty variant of the loop below: the sub nodes are searched from the
\* last one to the first
LastSubNodeFirst(sub_nodes, i, item_identifier, result_item_tree_node, recursion_depth) ==
    IF i > Len(sub_nodes)
    THEN [result |-> 0, node |-> result_item_tree_node]
    ELSE LET r == libpff_item_tree_get_tree_node_by_identifier(
                      sub_nodes[Len(sub_nodes) + 1 - i], item_identifier,
                      result_item_tree_node, recursion_depth + 1)
         IN  IF r.result # 0 THEN r
             ELSE LastSubNodeFirst(sub_nodes, i + 1, item_identifier,
                                   result_item_tree_node, recursion_depth)

\* a faulty variant of the loop below: only the first sub node is searched
FirstSubNodeOnly(sub_nodes, i, item_identifier, result_item_tree_node, recursion_depth) ==
    IF i > Len(sub_nodes)
    THEN [result |-> 0, node |-> result_item_tree_node]
    ELSE libpff_item_tree_get_tree_node_by_identifier(
             sub_nodes[1], item_identifier, result_item_tree_node, recursion_depth + 1)

\* the loop over the sub nodes (lines 309-382), from sub node i on
TraverseSubNodes(sub_nodes, i, item_identifier, result_item_tree_node, recursion_depth) ==
    IF i > Len(sub_nodes)
    THEN [result |-> 0, node |-> result_item_tree_node]
    ELSE LET r == libpff_item_tree_get_tree_node_by_identifier(
                      sub_nodes[i], item_identifier, result_item_tree_node,
                      recursion_depth + 1)
         IN  IF r.result # 0 THEN r
             ELSE TraverseSubNodes(sub_nodes, i + 1, item_identifier,
                                   result_item_tree_node, recursion_depth)

\* libpff_item_tree_get_node_by_identifier( item_tree, item_identifier, &node )
libpff_item_tree_get_node_by_identifier(item_tree, item_identifier, item_tree_node) ==
    IF item_tree = NULL
    THEN [result |-> -1, node |-> item_tree_node]
    ELSE libpff_item_tree_get_tree_node_by_identifier(
             root_node, item_identifier, item_tree_node, 0)

----------------------------------------------------------------------------
(* libpff_item_tree_get_sub_node_by_identifier                             *)

RECURSIVE ScanSubNodes(_, _, _, _)

\* a faulty variant of the loop below: the output argument is the cursor of
\* the loop, and holds the last sub node when none has matched
OutputUsedAsCursor(sub_nodes, i, sub_node_identifier, sub_node) ==
    IF i > Len(sub_nodes)
    THEN [result |-> 0, node |-> IF Len(sub_nodes) > 0 THEN sub_nodes[Len(sub_nodes)] ELSE sub_node]
    ELSE IF nodes[sub_nodes[i]].value = NULL
    THEN [result |-> -1, node |-> sub_nodes[i]]
    ELSE IF descriptor_identifier(sub_nodes[i]) = sub_node_identifier
    THEN [result |-> 1, node |-> sub_nodes[i]]
    ELSE ScanSubNodes(sub_nodes, i + 1, sub_node_identifier, sub_node)

\* the loop over the sub nodes (lines 471-543), from sub node i on
ScanSubNodes(sub_nodes, i, sub_node_identifier, sub_node) ==
    IF i > Len(sub_nodes)
    THEN [result |-> 0, node |-> sub_node]
    ELSE IF nodes[sub_nodes[i]].value = NULL
    THEN [result |-> -1, node |-> sub_node]
    ELSE IF descriptor_identifier(sub_nodes[i]) = sub_node_identifier
    THEN [result |-> 1, node |-> sub_nodes[i]]
    ELSE ScanSubNodes(sub_nodes, i + 1, sub_node_identifier, sub_node)

\* a faulty variant of the function below: the search of the whole sub tree
SubTreeSearched(item_tree_node, sub_node_identifier, sub_node) ==
    libpff_item_tree_get_tree_node_by_identifier(
        item_tree_node, sub_node_identifier, sub_node, 0)

libpff_item_tree_get_sub_node_by_identifier(item_tree_node, sub_node_identifier, sub_node) ==
    IF item_tree_node = NULL
    THEN [result |-> -1, node |-> sub_node]
    ELSE IF sub_node = NULL_POINTER
    THEN [result |-> -1, node |-> sub_node]
    ELSE IF sub_node # NULL
    THEN [result |-> -1, node |-> sub_node]
    ELSE IF nodes[item_tree_node].value = NULL
    THEN [result |-> -1, node |-> sub_node]
    ELSE ScanSubNodes(nodes[item_tree_node].sub_nodes, 1, sub_node_identifier, sub_node)

----------------------------------------------------------------------------
(* libpff_item_tree_append_identifier                                      *)

\* libcdata_tree_node_append_value( parent_node, value ): a new node for the
\* value becomes the last sub node of the parent
libcdata_tree_node_append_value(ns, parent_node, value) ==
    LET node == Len(ns) + 1
        with == Append(ns, [value |-> value, parent_node |-> parent_node,
                            sub_nodes |-> << >>, freed |-> FALSE])
    IN  [ result |-> 1,
          nodes  |-> [with EXCEPT ![parent_node].sub_nodes = Append(@, node)] ]

\* a faulty variant of the function below: the sorted insertion of unique
\* entries that the builder uses
InsertedSortedUnique(ns, ds, item_tree_node, descriptor_id, data_id, local_descriptors_id, recovered) ==
    IF item_tree_node = NULL
    THEN [result |-> -1, nodes |-> ns, descriptors |-> ds]
    ELSE LET item_descriptor == Len(ds) + 1
             made == Append(ds, NewDescriptor(descriptor_id, data_id,
                                              local_descriptors_id, recovered, NULL))
             r == libcdata_tree_node_insert_value(ns, item_tree_node, item_descriptor,
                                                  descriptor_id, {"UNIQUE_ENTRIES"})
         IN  IF r.result = 1
             THEN [result |-> 1, nodes |-> r.nodes, descriptors |-> made]
             ELSE [result |-> -1, nodes |-> r.nodes,
                   descriptors |-> FreeDescriptors(made, {item_descriptor})]

libpff_item_tree_append_identifier(ns, ds, item_tree_node, descriptor_id, data_id, local_descriptors_id, recovered) ==
    IF item_tree_node = NULL
    THEN [result |-> -1, nodes |-> ns, descriptors |-> ds]
    ELSE LET item_descriptor == Len(ds) + 1
             made == Append(ds, NewDescriptor(descriptor_id, data_id,
                                              local_descriptors_id, recovered, NULL))
             r == libcdata_tree_node_append_value(ns, item_tree_node, item_descriptor)
         IN  IF r.result = 1
             THEN [result |-> 1, nodes |-> r.nodes, descriptors |-> made]
             ELSE [result |-> -1, nodes |-> ns,
                   descriptors |-> FreeDescriptors(made, {item_descriptor})]

----------------------------------------------------------------------------
(* The builder's frames                                                    *)

Frame(function, node, recursion_depth) ==
    [ function |-> function, node |-> node, recursion_depth |-> recursion_depth,
      at |-> "entry", sub_node_index |-> 0,
      identifier |-> 0, parent_identifier |-> 0, item_descriptor |-> NULL ]

Top == stack[Len(stack)]
Pop == SubSeq(stack, 1, Len(stack) - 1)
Running == state = "building" /\ ~failing /\ stack # << >>

\* Faulty variants of the builder's choices below; each property is shown to
\* tell the builder from the variant named with it.
RecursionDepthAtBoundRefused(recursion_depth) ==
    \/ recursion_depth < 0
    \/ recursion_depth >= LIBPFF_MAXIMUM_ITEM_TREE_RECURSION_DEPTH
IdentifierTruncated(value) == FALSE
CursorFailureIgnored(value, cursor_call) == FALSE
DeletedTakenUp(value) == FALSE
ParentIdentifierReadAgain(f) ==
    index[get_leaf_node_by_identifier(f.parent_identifier)].parent_identifier
OrphanListOfLast(orphans, node) == << node >>
RootNodeSetIgnored(root) == FALSE
RootNodeTakenAsSet(root) == TRUE
ProbeFailureFatal == TRUE
InsertFlagsWithoutUnique == {}
LeafInsertFlagsWithoutUnique == {}
ParentIsSyntheticRoot(search) == root_node
NoReadAhead(parent_identifier) == NULL
SyntheticRootDescriptorOne == [ descriptor_identifier |-> 1, data_identifier |-> 0,
                                local_descriptors_identifier |-> 0,
                                recovered |-> 0, freed |-> 0, leaf |-> NULL ]

\* the check of the recursion depth at the entry of create_node and of
\* create_leaf_node
RecursionDepthOutOfBounds(recursion_depth) ==
    \/ recursion_depth < 0
    \/ recursion_depth > LIBPFF_MAXIMUM_ITEM_TREE_RECURSION_DEPTH

\* the check of the 64-bit identifier of the index value against UINT32_MAX
IdentifierExceedsMaximum(value) == value.identifier_upper > 0

\* whether the call of the cursor that the builder makes at the index node
\* with this value returns -1 (or, for node_value_missing, no value)
CursorCallFails(value, cursor_call) == value.fails = cursor_call

\* whether create_node skips the index node: libfdata_tree_node_is_deleted
\* has returned something other than 0
SkippedAsDeleted(value) == value.is_deleted

\* the parent identifier that create_leaf_node searches for after the
\* read-ahead: its local copy (lines 1098-1101), not the index value, whose
\* place in the cache the value of the leaf read last may have taken
ParentIdentifierAfterReadAhead(f) == f.parent_identifier

\* libcdata_list_append_value( orphan_node_list, item_tree_node ), lines
\* 1301-1304: the list with the node as its last element
OrphanListWith(orphans, node) == Append(orphans, node)

\* whether create_node fails when the number of sub nodes cannot be read
ProbeFailureIsFatal == FALSE

\* the insert flags the builder passes to libcdata
root_folder_insert_flags == {"UNIQUE_ENTRIES"}
leaf_insert_flags == {"UNIQUE_ENTRIES"}

\* the identifier the parent of a leaf is searched by, and the node the
\* leaf's descriptor is inserted under once the search has found one
ParentSearchIdentifier(identifier, parent_identifier) == parent_identifier
InsertionParent(search) == search.node

\* whether a leaf is the root folder, and whether one has been set already
IsRootFolder(identifier, parent_identifier) == identifier = parent_identifier
RootFolderAlreadySet == root_folder_item_tree_node # NULL

\* the read-ahead: the leaf of the index that carries the parent identifier
ReadAhead(parent_identifier) == get_leaf_node_by_identifier(parent_identifier)

\* the check of lines 651-662: the tree has a root node already
RootNodeSet(root) == root # NULL

\* the descriptor of the synthetic root node
SyntheticRootDescriptor == NewDescriptor(0, 0, 0, 0, NULL)

----------------------------------------------------------------------------
(* libpff_item_tree_create                                                 *)

\* lines 641-734: the synthetic root node with descriptor 0, then the call
\* of libpff_item_tree_create_node on the root of the descriptor index
libpff_item_tree_create ==
    /\ state = "initialized"
    /\ root_node = NULL
    /\ descriptors' = Append(descriptors, SyntheticRootDescriptor)
    /\ nodes' = Append(nodes, NewNode(Len(descriptors) + 1))
    /\ root_node' = Len(nodes) + 1
    /\ stack' = << Frame("create_node", 1, 0) >>
    /\ state' = "building"
    /\ UNCHANGED <<index, orphan_node_list, root_folder_item_tree_node,
                   failing, result, found, call, fault,
                   item_tree_reference>>

\* lines 734-762: libpff_item_tree_create_node has returned
libpff_item_tree_create_return ==
    /\ state = "building"
    /\ stack = << >>
    /\ IF failing
       THEN LET freed == libcdata_tree_node_free(nodes, descriptors, root_node, TRUE)
            IN  /\ nodes' = freed.nodes
                /\ descriptors' = freed.descriptors
                /\ root_node' = freed.node
                /\ result' = -1
                /\ state' = "failed"
       ELSE /\ result' = 1
            /\ state' = "built"
            /\ UNCHANGED <<nodes, descriptors, root_node>>
    /\ failing' = FALSE
    /\ UNCHANGED <<index, orphan_node_list, root_folder_item_tree_node, stack, found,
                   call, fault,
                   item_tree_reference>>

----------------------------------------------------------------------------
(* libpff_item_tree_create_node                                            *)

\* lines 809-915: up to the call of create_leaf_node or the sub node loop
libpff_item_tree_create_node ==
    /\ Running
    /\ Top.function = "create_node"
    /\ Top.at = "entry"
    /\ LET f == Top
       IN  IF RecursionDepthOutOfBounds(f.recursion_depth)
           THEN /\ stack' = Pop
                /\ failing' = TRUE
           ELSE IF number_of_sub_nodes(f.node) = -1
           THEN /\ stack' = Pop
                /\ failing' = ProbeFailureIsFatal
           ELSE IF CursorCallFails(index[f.node], "is_deleted")
           THEN /\ stack' = Pop
                /\ failing' = TRUE
           ELSE IF SkippedAsDeleted(index[f.node])
           THEN /\ stack' = Pop
                /\ UNCHANGED failing
           ELSE IF CursorCallFails(index[f.node], "is_leaf")
           THEN /\ stack' = Pop
                /\ failing' = TRUE
           ELSE IF index[f.node].is_leaf
           THEN /\ stack' = Pop \o << [f EXCEPT !.at = "leaf"],
                                      Frame("create_leaf_node", f.node, f.recursion_depth) >>
                /\ UNCHANGED failing
           ELSE /\ stack' = Pop \o << [f EXCEPT !.at = "loop"] >>
                /\ UNCHANGED failing
    \* on_error (lines 964-972) tries to free the root folder node, which
    \* libcdata_tree_node_free refuses because the node is in the tree
    /\ UNCHANGED <<index, root_node, nodes, descriptors, orphan_node_list,
                   root_folder_item_tree_node, state, result, found,
                   call, fault,
                   item_tree_reference>>

\* lines 916-962: the next sub node of the loop, or return( 1 )
libpff_item_tree_create_node_next ==
    /\ Running
    /\ Top.function = "create_node"
    /\ Top.at \in {"loop", "leaf"}
    /\ LET f == Top
       IN  IF f.at = "loop" /\ f.sub_node_index < number_of_sub_nodes(f.node)
           THEN IF CursorCallFails(index[f.node], "get_sub_node_by_index")
                THEN /\ stack' = Pop
                     /\ failing' = TRUE
                ELSE /\ stack' = Pop \o
                          << [f EXCEPT !.sub_node_index = @ + 1],
                             Frame("create_node",
                                   index[f.node].sub_nodes[f.sub_node_index + 1],
                                   f.recursion_depth + 1) >>
                     /\ UNCHANGED failing
           ELSE /\ stack' = Pop
                /\ UNCHANGED failing
    /\ UNCHANGED <<index, root_node, nodes, descriptors, orphan_node_list,
                   root_folder_item_tree_node, state, result, found,
                   call, fault,
                   item_tree_reference>>

----------------------------------------------------------------------------
(* libpff_item_tree_create_leaf_node                                       *)

\* lines 1358-1379 (and 964-972 with no descriptor): on_error
OnError(ns, ds, root_folder, item_descriptor) ==
    LET freed == libcdata_tree_node_free(ns, ds, root_folder, FALSE)
    IN  /\ nodes' = freed.nodes
        /\ root_folder_item_tree_node' = freed.node
        /\ descriptors' = IF item_descriptor # NULL
                          THEN FreeDescriptors(freed.descriptors, {item_descriptor})
                          ELSE freed.descriptors
        /\ stack' = Pop
        /\ failing' = TRUE
        /\ UNCHANGED orphan_node_list

\* lines 1105-1172: the leaf is the root folder
RootFolder(ds, item_descriptor, identifier) ==
    IF RootFolderAlreadySet
    THEN OnError(nodes, ds, root_folder_item_tree_node, item_descriptor)
    ELSE LET node == Len(nodes) + 1
             r == IF fault = "tree_node_insert_node"
                  THEN [result |-> -1, nodes |-> Append(nodes, NewNode(item_descriptor))]
                  ELSE libcdata_tree_node_insert_node(
                           Append(nodes, NewNode(item_descriptor)), root_node, node,
                           identifier, root_folder_insert_flags)
             freed == libcdata_tree_node_free(r.nodes, ds, node, TRUE)
         IN  /\ IF r.result = 1
                THEN /\ nodes' = r.nodes
                     /\ descriptors' = ds
                     /\ root_folder_item_tree_node' = node
                ELSE /\ nodes' = freed.nodes
                     \* on_error (result -1) frees item_descriptor once more
                     /\ descriptors' = IF r.result = -1
                                       THEN FreeDescriptors(freed.descriptors,
                                                            {item_descriptor})
                                       ELSE freed.descriptors
                     /\ root_folder_item_tree_node' = freed.node
             /\ failing' = (r.result = -1)
             /\ stack' = Pop
             /\ UNCHANGED orphan_node_list

\* a faulty variant of the orphan case below: the leaf is dropped
OrphanDiscarded(ds, item_descriptor) ==
    /\ descriptors' = FreeDescriptors(ds, {item_descriptor})
    /\ stack' = Pop
    /\ UNCHANGED <<nodes, orphan_node_list, root_folder_item_tree_node, failing>>

\* lines 1259-1314: the leaf is an orphan: a node of its own in the orphan list
Orphan(ds, item_descriptor) ==
    IF fault = "list_append_value"
    THEN \* item_descriptor is NULL by now: on_error frees the node without
         \* its value
         LET item_tree_node == Len(nodes) + 1
             freed == libcdata_tree_node_free(
                          Append(nodes, NewNode(item_descriptor)), ds,
                          item_tree_node, FALSE)
         IN  OnError(freed.nodes, freed.descriptors, root_folder_item_tree_node, NULL)
    ELSE /\ nodes' = Append(nodes, NewNode(item_descriptor))
         /\ orphan_node_list' = OrphanListWith(orphan_node_list, Len(nodes) + 1)
         /\ descriptors' = ds
         /\ stack' = Pop
         /\ UNCHANGED <<root_folder_item_tree_node, failing>>

\* lines 1247-1354: what becomes of the leaf once the search for its parent
\* has ended with `search'
PlaceLeaf(ds, item_descriptor, identifier, search) ==
    IF search.result = -1
    THEN OnError(nodes, ds, root_folder_item_tree_node, item_descriptor)
    ELSE IF search.result = 0
    THEN Orphan(ds, item_descriptor)
    ELSE LET r == libcdata_tree_node_insert_value(
                      nodes, InsertionParent(search), item_descriptor,
                      identifier, leaf_insert_flags)
         IN  /\ nodes' = r.nodes
             /\ descriptors' = IF r.result # 1
                               THEN FreeDescriptors(ds, {item_descriptor})
                               ELSE ds
             /\ stack' = Pop
             /\ UNCHANGED <<orphan_node_list, root_folder_item_tree_node, failing>>

\* lines 1025-1236: from the entry to the read-ahead call or the return
libpff_item_tree_create_leaf_node ==
    /\ Running
    /\ Top.function = "create_leaf_node"
    /\ Top.at = "entry"
    /\ LET f == Top
           value == index[f.node]
           identifier == value.identifier
           parent_identifier == value.parent_identifier
           item_descriptor == Len(descriptors) + 1
           ds == Append(descriptors,
                        NewDescriptor(identifier, value.data_identifier,
                                      value.local_descriptors_identifier, 0, f.node))
           search == libpff_item_tree_get_tree_node_by_identifier(
                         root_node,
                         ParentSearchIdentifier(identifier, parent_identifier),
                         NULL, 0)
           parent_leaf == ReadAhead(parent_identifier)
       IN  IF RecursionDepthOutOfBounds(f.recursion_depth)
           THEN /\ stack' = Pop
                /\ failing' = TRUE
                /\ UNCHANGED <<nodes, descriptors, orphan_node_list,
                               root_folder_item_tree_node>>
           ELSE IF \/ CursorCallFails(value, "get_node_value")
                   \/ CursorCallFails(value, "node_value_missing")
           THEN OnError(nodes, descriptors, root_folder_item_tree_node, NULL)
           ELSE IF IdentifierExceedsMaximum(value)
           THEN OnError(nodes, descriptors, root_folder_item_tree_node, NULL)
           ELSE IF IsRootFolder(identifier, parent_identifier)
           THEN RootFolder(ds, item_descriptor, identifier)
           ELSE IF search.result = 0
                   /\ CursorCallFails(value, "get_leaf_node_by_identifier")
           THEN OnError(nodes, ds, root_folder_item_tree_node, item_descriptor)
           ELSE IF search.result = 0 /\ parent_leaf # NULL
           THEN /\ stack' = Pop \o
                      << [f EXCEPT !.at = "read_ahead",
                                   !.identifier = identifier,
                                   !.parent_identifier = parent_identifier,
                                   !.item_descriptor = item_descriptor],
                         Frame("create_node", parent_leaf, f.recursion_depth + 1) >>
                /\ descriptors' = ds
                /\ UNCHANGED <<nodes, orphan_node_list, root_folder_item_tree_node,
                               failing>>
           ELSE PlaceLeaf(ds, item_descriptor, identifier, search)
    /\ UNCHANGED <<index, root_node, state, result, found, call, fault,
                   item_tree_reference>>

\* lines 1237-1354: the read-ahead has built the parent leaf; search again
libpff_item_tree_create_leaf_node_read_ahead ==
    /\ Running
    /\ Top.function = "create_leaf_node"
    /\ Top.at = "read_ahead"
    /\ PlaceLeaf(descriptors, Top.item_descriptor, Top.identifier,
                 libpff_item_tree_get_tree_node_by_identifier(
                     root_node,
                     ParentSearchIdentifier(Top.identifier,
                                            ParentIdentifierAfterReadAhead(Top)),
                     NULL, 0))
    /\ UNCHANGED <<index, root_node, state, result, found, call, fault,
                   item_tree_reference>>

\* a callee has returned -1: goto on_error in the caller
\* (create_node lines 964-972, create_leaf_node lines 1226-1235 and 1358-1379)
on_error ==
    /\ state = "building"
    /\ failing
    /\ stack # << >>
    /\ OnError(nodes, descriptors, root_folder_item_tree_node, Top.item_descriptor)
    /\ UNCHANGED <<index, root_node, state, result, found, call, fault,
                   item_tree_reference>>

----------------------------------------------------------------------------
(* Lookups in a built tree                                                 *)

LookupIdentifiers ==
    {0} \cup { index[n].identifier : n \in Leaves(index) }
        \cup { index[n].parent_identifier : n \in Leaves(index) }

get_node_by_identifier(item_identifier) ==
    /\ state = "built"
    /\ LET r == libpff_item_tree_get_node_by_identifier(ItemTree, item_identifier, NULL)
       IN  found' = [ called |-> TRUE, item_identifier |-> item_identifier,
                      result |-> r.result, node |-> r.node ]
    /\ UNCHANGED <<index, root_node, nodes, descriptors, orphan_node_list,
                   root_folder_item_tree_node, stack, failing, state, result,
                   call, fault,
                   item_tree_reference>>

\* no call yet
NoCall ==
    [ function |-> "none", object |-> NULL, identifier |-> 0, arguments |-> << >>,
      slot |-> NULL, result |-> 0, out |-> NULL ]

\* how a caller passes an output argument: a NULL pointer, a pointer to an
\* unset reference, a pointer to a reference that is set already
OutputSlots == {NULL_POINTER, NULL, root_node}

\* the live nodes a caller can hold: those of the tree and the orphans
LiveNodes == { n \in DOMAIN nodes : ~nodes[n].freed }

\* a caller of the built tree looks for a sub node of a node (the caller of
\* the model makes one call on the tree it has built: call is "none" before)
get_sub_node_by_identifier(item_tree_node, sub_node_identifier, sub_node) ==
    /\ state = "built"
    /\ call = NoCall
    /\ LET r == libpff_item_tree_get_sub_node_by_identifier(
                    item_tree_node, sub_node_identifier, sub_node)
       IN  call' = [ function |-> "get_sub_node_by_identifier",
                     object |-> item_tree_node, identifier |-> sub_node_identifier,
                     arguments |-> << >>,
                     slot |-> sub_node, result |-> r.result, out |-> r.node ]
    /\ UNCHANGED <<index, root_node, nodes, descriptors, orphan_node_list,
                   root_folder_item_tree_node, stack, failing, state, result,
                   found, fault,
                   item_tree_reference>>

\* a caller of the built tree looks an identifier up, with any arguments
get_node_by_identifier_with(item_tree, item_identifier, item_tree_node) ==
    /\ state = "built"
    /\ call = NoCall
    /\ LET r == libpff_item_tree_get_node_by_identifier(
                    item_tree, item_identifier, item_tree_node)
       IN  call' = [ function |-> "get_node_by_identifier",
                     object |-> item_tree, identifier |-> item_identifier,
                     arguments |-> << >>,
                     slot |-> item_tree_node, result |-> r.result, out |-> r.node ]
    /\ UNCHANGED <<index, root_node, nodes, descriptors, orphan_node_list,
                   root_folder_item_tree_node, stack, failing, state, result,
                   found, fault,
                   item_tree_reference>>

\* a faulty variant of the reset below: the reference is kept when the free
\* of the root node has failed
ReferenceKeptOnFailure(free_result) == IF free_result = 1 THEN NULL ELSE ItemTree
\* lines 154-156: what libpff_item_tree_free leaves in the reference
ReferenceAfterFree(free_result) == NULL

\* libpff_item_tree_initialize( argument ): the caller passes a NULL pointer
\* (NULL_POINTER) or the address of its reference item_tree_reference.  A reference
\* that was freed after a build is not initialized again (a run builds one
\* tree).
item_tree_initialize(argument) ==
    /\ state # "building"
    /\ argument = NULL_POINTER \/ item_tree_reference # NULL \/ nodes = << >>
    /\ IF argument = NULL_POINTER \/ item_tree_reference # NULL
       THEN /\ call' = [NoCall EXCEPT !.function = "initialize", !.slot = argument,
                                      !.result = -1, !.out = argument]
            /\ UNCHANGED <<item_tree_reference, root_node, state>>
       ELSE IF fault \in {"memory_allocate", "memory_set"}
       THEN /\ call' = [NoCall EXCEPT !.function = "initialize", !.slot = argument,
                                      !.result = -1, !.out = NULL]
            /\ UNCHANGED <<item_tree_reference, root_node, state>>
       ELSE /\ item_tree_reference' = ItemTree
            /\ root_node' = NULL
            /\ state' = "initialized"
            /\ call' = [NoCall EXCEPT !.function = "initialize", !.slot = argument,
                                      !.result = 1, !.out = ItemTree]
    /\ UNCHANGED <<index, nodes, descriptors, orphan_node_list,
                   root_folder_item_tree_node, stack, failing, result, found, fault>>

\* libpff_item_tree_free( argument ): the caller passes a NULL pointer
\* (NULL_POINTER) or the address of its reference item_tree_reference
item_tree_free(argument) ==
    /\ state # "building"
    /\ IF argument = NULL_POINTER
       THEN /\ call' = [NoCall EXCEPT !.function = "free", !.slot = argument,
                                      !.result = -1, !.out = argument]
            /\ UNCHANGED <<item_tree_reference, root_node, state, nodes, descriptors>>
       ELSE IF item_tree_reference = NULL
       THEN /\ call' = [NoCall EXCEPT !.function = "free", !.slot = argument,
                                      !.result = 1, !.out = NULL]
            /\ UNCHANGED <<item_tree_reference, root_node, state, nodes, descriptors>>
       ELSE LET freed == IF fault = "tree_node_free" /\ root_node # NULL
                         THEN [result |-> -1, nodes |-> nodes,
                               descriptors |-> descriptors]
                         ELSE libcdata_tree_node_free(nodes, descriptors,
                                                      root_node, TRUE)
            IN  /\ nodes' = freed.nodes
                /\ descriptors' = freed.descriptors
                /\ call' = [NoCall EXCEPT !.function = "free",
                                          !.object = ItemTree, !.slot = argument,
                                          !.result = freed.result, !.out = NULL]
                /\ item_tree_reference' = ReferenceAfterFree(freed.result)
                /\ root_node' = NULL
                /\ state' = "freed"
    /\ UNCHANGED <<index, orphan_node_list, root_folder_item_tree_node, stack,
                   failing, result, found, fault>>

\* libpff_item_tree_free( &item_tree_reference ) after the build has returned
libpff_item_tree_free ==
    /\ state \in {"built", "failed"}
    /\ item_tree_free(item_tree_reference)

\* a caller calls libpff_item_tree_create on the tree once more, after a
\* build that has succeeded or failed: with a root node set the function
\* returns -1 at line 661, otherwise it builds as the first time
create_again ==
    /\ state \in {"built", "failed"}
    /\ call = NoCall
    /\ call' = [ function |-> "create", object |-> ItemTree, identifier |-> 0,
                 arguments |-> << >>, slot |-> NULL,
                 result |-> IF RootNodeSet(root_node) THEN -1 ELSE 0,
                 out |-> NULL ]
    /\ IF RootNodeSet(root_node)
       THEN UNCHANGED <<root_node, nodes, descriptors, stack, state, failing, result>>
       ELSE /\ descriptors' = Append(descriptors, SyntheticRootDescriptor)
            /\ nodes' = Append(nodes, NewNode(Len(descriptors) + 1))
            /\ root_node' = Len(nodes) + 1
            /\ stack' = << Frame("create_node", 1, 0) >>
            /\ state' = "building"
            /\ failing' = FALSE
            /\ result' = 0
    /\ UNCHANGED <<index, orphan_node_list, root_folder_item_tree_node,
                   found, fault, item_tree_reference>>

\* a caller looks an identifier up in a tree that has no root node: before
\* the build, or after a build that has failed
get_node_by_identifier_unbuilt(item_identifier) ==
    /\ state \in {"initialized", "failed"}
    /\ LET r == libpff_item_tree_get_node_by_identifier(ItemTree, item_identifier, NULL)
       IN  found' = [ called |-> TRUE, item_identifier |-> item_identifier,
                      result |-> r.result, node |-> r.node ]
    /\ UNCHANGED <<index, root_node, nodes, descriptors, orphan_node_list,
                   root_folder_item_tree_node, stack, failing, state, result,
                   call, fault,
                   item_tree_reference>>

\* a caller of the built tree appends an identifier under a node
append_identifier(item_tree_node, descriptor_id, data_id, local_descriptors_id, recovered) ==
    /\ state = "built"
    /\ call = NoCall
    /\ LET r == libpff_item_tree_append_identifier(
                    nodes, descriptors, item_tree_node, descriptor_id, data_id,
                    local_descriptors_id, recovered)
       IN  /\ nodes' = r.nodes
           /\ descriptors' = r.descriptors
           /\ call' = [ function |-> "append_identifier",
                        object |-> item_tree_node, identifier |-> descriptor_id,
                        arguments |-> <<data_id, local_descriptors_id, recovered>>,
                        slot |-> NULL, result |-> r.result, out |-> NULL ]
    /\ UNCHANGED <<index, root_node, orphan_node_list, root_folder_item_tree_node,
                   stack, failing, state, result, found, fault,
                   item_tree_reference>>

----------------------------------------------------------------------------
(* The specification                                                       *)

\* nothing built and nothing called yet
Unbuilt ==
    /\ root_node = NULL
    /\ nodes = << >>
    /\ descriptors = << >>
    /\ orphan_node_list = << >>
    /\ root_folder_item_tree_node = NULL
    /\ stack = << >>
    /\ failing = FALSE
    /\ result = 0
    /\ found = [called |-> FALSE, item_identifier |-> 0, result |-> 0, node |-> NULL]
    /\ call = NoCall

Declared ==
    /\ \/ \E len \in 0 .. MaxLeaves :
              \E values \in [1 .. len -> Ids \X Ids] :
                  \E n \in 0 .. (IF len <= MaxFlaggedLeaves THEN len + 1 ELSE 0) :
                      \E kind \in FlagKinds :
                          index = Flagged(FlatIndex(values), n, kind)
       \/ index \in Scenarios
    /\ Unbuilt

\* the state after libpff_item_tree_initialize: a tree without a root node
Constructed ==
    /\ Declared
    /\ item_tree_reference = ItemTree
    /\ state = "initialized"

Init == Constructed /\ fault = "none"

Next ==
    \/ libpff_item_tree_create
    \/ libpff_item_tree_create_node
    \/ libpff_item_tree_create_node_next
    \/ libpff_item_tree_create_leaf_node
    \/ libpff_item_tree_create_leaf_node_read_ahead
    \/ on_error
    \/ libpff_item_tree_create_return
    \/ \E item_identifier \in LookupIdentifiers : get_node_by_identifier(item_identifier)

Spec == Init /\ [][Next]_vars

\* the steps of libpff_item_tree_create: once called, the function runs its
\* statements one after the other until it returns
Build ==
    \/ libpff_item_tree_create
    \/ libpff_item_tree_create_node
    \/ libpff_item_tree_create_node_next
    \/ libpff_item_tree_create_leaf_node
    \/ libpff_item_tree_create_leaf_node_read_ahead
    \/ on_error
    \/ libpff_item_tree_create_return

FairSpec == Spec /\ WF_vars(Build)

\* the build followed by the calls of a caller that looks nodes up
NextLookup ==
    \/ Build
    \/ \E item_tree_node \in LiveNodes \cup {NULL} :
           \E sub_node_identifier \in LookupIdentifiers :
               \E sub_node \in OutputSlots :
                   get_sub_node_by_identifier(item_tree_node, sub_node_identifier, sub_node)
    \/ \E item_tree \in {NULL, ItemTree} :
           \E item_identifier \in LookupIdentifiers :
               \E item_tree_node \in OutputSlots :
                   get_node_by_identifier_with(item_tree, item_identifier, item_tree_node)

SpecLookup == Init /\ [][NextLookup]_vars

\* the build followed by the call of a caller that appends an identifier
NextAppend ==
    \/ Build
    \/ \E item_tree_node \in LiveNodes \cup {NULL} :
           \E descriptor_id \in LookupIdentifiers :
               \E data_id \in {0, 7} :
                   \E recovered \in {0, 1} :
                       append_identifier(item_tree_node, descriptor_id, data_id,
                                         data_id + 1, recovered)

SpecAppend == Init /\ [][NextAppend]_vars

\* the build followed by the calls of a caller that appends an identifier
\* and then looks identifiers up
NextAppendLookup ==
    \/ Build
    \/ /\ ~found.called
       /\ \E item_tree_node \in LiveNodes :
              \E descriptor_id \in LookupIdentifiers :
                  append_identifier(item_tree_node, descriptor_id, 7, 8, 0)
    \/ \E item_identifier \in LookupIdentifiers : get_node_by_identifier(item_identifier)

SpecAppendLookup == Init /\ [][NextAppendLookup]_vars

\* the build followed by a second call of libpff_item_tree_create
NextCreateAgain == Build \/ create_again

SpecCreateAgain == Init /\ [][NextCreateAgain]_vars

\* the build, lookups in the tree while it has no root node, and a second
\* call of libpff_item_tree_create
NextRebuild ==
    \/ Build
    \/ \E item_identifier \in LookupIdentifiers :
           get_node_by_identifier_unbuilt(item_identifier)
    \/ create_again

SpecRebuild == Init /\ [][NextRebuild]_vars

\* the libcdata calls of the builder that can be made to fail: every call of
\* the one named by fault returns -1
Faults == {"none", "list_append_value", "tree_node_insert_node"}

InitFaults == Constructed /\ fault \in Faults

\* the build, with or without a failing libcdata call, and the free of the tree
NextFaults ==
    \/ Build
    \/ libpff_item_tree_free

SpecFaults == InitFaults /\ [][NextFaults]_vars

\* the failures of a lifecycle call: the allocation or the clearing of the
\* tree in initialize, the free of the root node in free
LifecycleFaults == {"none", "memory_allocate", "memory_set", "tree_node_free"}

\* before libpff_item_tree_initialize: the caller's reference is NULL
InitLifecycle ==
    /\ Declared
    /\ item_tree_reference = NULL
    /\ state = "unallocated"
    /\ fault \in LifecycleFaults

\* the life of a tree: initialize, build, free, with any argument
NextLifecycle ==
    \/ Build
    \/ \E argument \in {NULL_POINTER, item_tree_reference} : item_tree_initialize(argument)
    \/ \E argument \in {NULL_POINTER, item_tree_reference} : item_tree_free(argument)

SpecLifecycle == InitLifecycle /\ [][NextLifecycle]_vars

\* an initialized tree and an index at one node of which one call of the
\* cursor fails
InitCursorFailure ==
    /\ \E cursor_call \in CursorCalls :
           \/ \E len \in 0 .. MaxLeaves :
                  \E values \in [1 .. len -> Ids \X Ids] :
                      \E n \in 1 .. len + 1 :
                          index = Failing(FlatIndex(values), n, cursor_call)
           \/ \E n \in DOMAIN TwoLevels :
                  index = Failing(TwoLevels, n, cursor_call)
    /\ Unbuilt
    /\ item_tree_reference = ItemTree
    /\ state = "initialized"
    /\ fault = "none"

SpecCursorFailure == InitCursorFailure /\ [][Build]_vars

----------------------------------------------------------------------------
(* Vocabulary of the properties                                            *)

\* the nodes of the main tree (none once a failed build has freed it)
TreeNodes == IF root_node = NULL THEN {} ELSE SubTree(nodes, root_node)
MainTreeNodes == TreeNodes \ {root_node}
OrphanNodes == { orphan_node_list[i] : i \in DOMAIN orphan_node_list }
SubNodeSet(n) == { nodes[n].sub_nodes[i] : i \in DOMAIN nodes[n].sub_nodes }

\* the index leaf a node's descriptor was created from
LeafOf(n) == index[DescriptorOf(n).leaf]

TreeIdentifiers == { descriptor_identifier(n) : n \in MainTreeNodes }
OrphanIdentifiers == { descriptor_identifier(n) : n \in OrphanNodes }

\* the leaves the walk of create_node reaches from index node n: it turns
\* back at a node that cannot be read or is deleted
RECURSIVE VisibleBelow(_)
VisibleBelow(n) ==
    IF ~index[n].readable \/ index[n].is_deleted THEN {}
    ELSE IF index[n].is_leaf THEN {n}
    ELSE UNION { VisibleBelow(index[n].sub_nodes[i]) : i \in DOMAIN index[n].sub_nodes }

\* the leaves the builder gets to see: readable and not deleted, below
\* readable, not deleted nodes only
VisibleLeaves == VisibleBelow(1)

DistinctIdentifiers ==
    \A m, n \in Leaves(index) : index[m].identifier = index[n].identifier => m = n

Built == state = "built"

----------------------------------------------------------------------------
(* Properties                                                              *)

\* C1: in every state, and so after every successful build, each node of the
\* main tree other than the synthetic root and the root folder node is a
\* direct child of a node whose descriptor identifier is the parent
\* identifier of the index leaf the node was created from.
C1_ChildOfParentIdentifier ==
    \A n \in MainTreeNodes :
        n # root_folder_item_tree_node =>
            /\ nodes[n].parent_node \in TreeNodes
            /\ n \in SubNodeSet(nodes[n].parent_node)
            /\ descriptor_identifier(nodes[n].parent_node) = LeafOf(n).parent_identifier

\* a built tree with a node attached below a node other than the synthetic root
C1_Witness ==
    /\ Built
    /\ \E n \in MainTreeNodes :
           /\ n # root_folder_item_tree_node
           /\ nodes[n].parent_node # root_node
           /\ LeafOf(n).parent_identifier # 0

\* C2: in every state during and after a build, the descriptor identifiers
\* of the sub nodes of every node of the main tree are strictly ascending.
C2_SubNodesStrictlyAscending ==
    \A n \in TreeNodes :
        \A i, j \in DOMAIN nodes[n].sub_nodes :
            i < j => descriptor_identifier(nodes[n].sub_nodes[i])
                         < descriptor_identifier(nodes[n].sub_nodes[j])

\* during a build, a node whose later made sub node stands before an earlier one
C2_Witness ==
    /\ state = "building"
    /\ \E n \in TreeNodes :
           \E i, j \in DOMAIN nodes[n].sub_nodes :
               i < j /\ nodes[n].sub_nodes[i] > nodes[n].sub_nodes[j]

\* Where the build has put the leaves that are not self-parented: each in
\* the main tree when its parent identifier is in the tree, in the orphan
\* list when it is not, and no identifier in both.
LeavesPlaced ==
    /\ \A l \in VisibleLeaves :
           index[l].identifier # index[l].parent_identifier =>
               IF index[l].parent_identifier
                      \in { descriptor_identifier(n) : n \in TreeNodes }
               THEN index[l].identifier \in TreeIdentifiers
               ELSE index[l].identifier \in OrphanIdentifiers
    /\ TreeIdentifiers \cap OrphanIdentifiers = {}

\* C3 as stated: after a successful build every readable, not deleted leaf
\* that is not self-parented is in the main tree or in the orphan list,
\* according to whether its parent identifier is in the tree, and the
\* identifiers of the tree and of the orphan list are disjoint.
C3_AsStated == Built => LeavesPlaced

\* the leaves that are not self-parented are each in the main tree or in
\* the orphan list
LeavesCovered ==
    \A l \in VisibleLeaves :
        index[l].identifier # index[l].parent_identifier =>
            index[l].identifier \in TreeIdentifiers \cup OrphanIdentifiers

\* C3: after a successful build every readable, not deleted leaf that is not
\* self-parented is in the main tree or in the orphan list; when the leaves
\* of the index carry pairwise distinct identifiers, it is in the tree if
\* its parent identifier is in the tree and in the orphan list if not, and
\* the identifiers of the tree and of the orphan list are disjoint.
C3_PlacedWhenDistinct ==
    Built => /\ LeavesCovered
             /\ DistinctIdentifiers => LeavesPlaced

\* a built tree of distinct identifiers with a node made by a read-ahead
\* (its descriptor is older than its parent's) and an orphan
C3_Witness ==
    /\ Built
    /\ DistinctIdentifiers
    /\ OrphanNodes # {}
    /\ \E n \in MainTreeNodes :
           /\ nodes[n].parent_node # root_node
           /\ nodes[n].value < nodes[nodes[n].parent_node].value

\* An index of readable, not deleted leaves with pairwise distinct
\* identifiers other than 0 (the identifier of the synthetic root), one of them
\* self-parented, at which the parent chain of every leaf ends.
LeafWithIdentifier(identifier) ==
    CHOOSE l \in Leaves(index) : index[l].identifier = identifier

RECURSIVE ChainEndsAt(_, _, _)
ChainEndsAt(l, root_folder, steps) ==
    IF l = root_folder THEN TRUE
    ELSE IF steps = 0 THEN FALSE
    ELSE /\ \E m \in Leaves(index) : index[m].identifier = index[l].parent_identifier
         /\ ChainEndsAt(LeafWithIdentifier(index[l].parent_identifier),
                        root_folder, steps - 1)

SelfParentedLeaves ==
    { l \in Leaves(index) : index[l].identifier = index[l].parent_identifier }

RootedFamily ==
    /\ VisibleLeaves = Leaves(index)
    /\ DistinctIdentifiers
    /\ \A l \in Leaves(index) : index[l].identifier_upper = 0 /\ index[l].identifier # 0
    /\ \E root_folder \in Leaves(index) :
           /\ SelfParentedLeaves = {root_folder}
           /\ \A l \in Leaves(index) : ChainEndsAt(l, root_folder, Len(index))

\* the tree the parent-first order builds from a rooted family: the root
\* folder under the synthetic root, every other leaf once, under the node
\* of its parent identifier, each list of sub nodes ascending
ParentFirstTree ==
    /\ root_folder_item_tree_node \in MainTreeNodes
    /\ nodes[root_folder_item_tree_node].parent_node = root_node
    /\ DescriptorOf(root_folder_item_tree_node).leaf \in SelfParentedLeaves
    /\ SubNodeSet(root_node) = {root_folder_item_tree_node}
    /\ \A l \in Leaves(index) :
           Cardinality({ n \in MainTreeNodes : DescriptorOf(n).leaf = l }) = 1
    /\ C1_ChildOfParentIdentifier
    /\ C2_SubNodesStrictlyAscending

Ended == state \in {"built", "failed"}

\* C4 as stated: the build of a rooted family succeeds whatever the order of
\* its leaves in the index, with the tree and the root folder node of the
\* parent-first order and an empty orphan list.
C4_OrderIndependent ==
    (RootedFamily /\ Ended) =>
        /\ Built
        /\ result = 1
        /\ orphan_node_list = << >>
        /\ ParentFirstTree

\* the depth of a node below the synthetic root (the synthetic root: 0)
RECURSIVE Depth(_)
Depth(n) == IF nodes[n].parent_node = NULL THEN 0 ELSE 1 + Depth(nodes[n].parent_node)

FoundPresent ==
    /\ found.called
    /\ found.item_identifier \in { descriptor_identifier(n) : n \in TreeNodes }

FoundIsMatch ==
    /\ found.result = 1
    /\ found.node \in TreeNodes
    /\ descriptor_identifier(found.node) = found.item_identifier

\* C5 as stated: a lookup of an identifier that a node of the built tree
\* carries returns 1 with a node of that identifier, whatever the depth.
C5_FindsEveryPresent == FoundPresent => FoundIsMatch

\* C5: the same for a tree none of whose nodes lies deeper below the
\* synthetic root than the recursion bound.
C5_FindsPresentWithinBound ==
    (FoundPresent /\ \A n \in TreeNodes :
                         Depth(n) <= LIBPFF_MAXIMUM_ITEM_TREE_RECURSION_DEPTH)
        => FoundIsMatch

\* a lookup that has found a node at the recursion bound, past an earlier sibling
C5_Witness ==
    /\ FoundPresent
    /\ found.result = 1
    /\ \/ Depth(found.node) = LIBPFF_MAXIMUM_ITEM_TREE_RECURSION_DEPTH
       \/ /\ Depth(found.node) >= 2
          /\ nodes[nodes[found.node].parent_node].sub_nodes[1] # found.node

\* C6: a lookup of identifier 0 returns the synthetic root, also when a node
\* below it carries identifier 0, and a lookup of another identifier never
\* returns the synthetic root.
C6_ZeroIsSyntheticRoot ==
    found.called =>
        /\ found.item_identifier = 0 => (found.result = 1 /\ found.node = root_node)
        /\ found.item_identifier # 0 => found.node # root_node

\* a lookup of 0 in a tree with a node of identifier 0 below the synthetic root
C6_Witness ==
    /\ found.called
    /\ found.item_identifier = 0
    /\ found.node = root_node
    /\ 0 \in TreeIdentifiers

\* create_leaf_node is about to take up a leaf that passes its checks of
\* the recursion depth and of the identifier
LeafTakenUp ==
    /\ Running
    /\ Top.function = "create_leaf_node"
    /\ Top.at = "entry"
    /\ Top.recursion_depth <= LIBPFF_MAXIMUM_ITEM_TREE_RECURSION_DEPTH
    /\ index[Top.node].identifier_upper = 0

SelfParentedTakenUp ==
    /\ LeafTakenUp
    /\ index[Top.node].identifier = index[Top.node].parent_identifier

\* the root folder handle refers to a sub node of the synthetic root that
\* carries the descriptor of the leaf just processed
RootFolderAttached ==
    /\ root_folder_item_tree_node' # NULL
    /\ nodes'[root_folder_item_tree_node'].parent_node = root_node'
    /\ \E i \in DOMAIN nodes'[root_node'].sub_nodes :
           nodes'[root_node'].sub_nodes[i] = root_folder_item_tree_node'
    /\ descriptors'[nodes'[root_folder_item_tree_node'].value].leaf = Top.node
    /\ ~failing'

\* C7 as stated: a self-parented leaf processed while no root folder is set
\* is attached under the synthetic root and the root folder handle refers
\* to its node; a handle once set refers to the same node for the rest of
\* the build.
C7_RootFolderSetOnce ==
    [][ /\ (SelfParentedTakenUp /\ root_folder_item_tree_node = NULL)
            => RootFolderAttached
        /\ (state = "building" /\ root_folder_item_tree_node # NULL)
            => root_folder_item_tree_node' = root_folder_item_tree_node ]_vars

\* the search for the parent of the leaf on top of the stack, as
\* create_leaf_node makes it
ParentSearch ==
    libpff_item_tree_get_tree_node_by_identifier(
        root_node, index[Top.node].parent_identifier, NULL, 0)

\* the leaf taken up is not self-parented, its parent identifier is found
\* neither in the tree nor by the lookup of the cursor
OrphanTakenUp ==
    /\ LeafTakenUp
    /\ index[Top.node].identifier # index[Top.node].parent_identifier
    /\ ParentSearch.result = 0
    /\ \A l \in Leaves(index) :
           index[l].identifier # index[Top.node].parent_identifier

\* the orphan list has grown by one standalone node that carries the
\* descriptor of the leaf; the main tree is as it was; nothing has failed
OrphanAppended ==
    /\ Len(orphan_node_list') = Len(orphan_node_list) + 1
    /\ SubSeq(orphan_node_list', 1, Len(orphan_node_list)) = orphan_node_list
    /\ LET node == orphan_node_list'[Len(orphan_node_list')]
       IN  /\ node \notin DOMAIN nodes
           /\ nodes'[node].parent_node = NULL
           /\ nodes'[node].sub_nodes = << >>
           /\ ~nodes'[node].freed
           /\ descriptors'[nodes'[node].value].leaf = Top.node
           /\ descriptors'[nodes'[node].value].descriptor_identifier
                  = index[Top.node].identifier
           /\ descriptors'[nodes'[node].value].freed = 0
    /\ TreeNodes' = TreeNodes
    /\ \A n \in TreeNodes : nodes'[n] = nodes[n]
    /\ ~failing'

OrphanIdentifierList ==
    [i \in DOMAIN orphan_node_list |-> descriptor_identifier(orphan_node_list[i])]

\* C8: a leaf whose parent identifier is found neither in the tree nor by
\* the lookup of the cursor is appended to the orphan list as a standalone
\* node with its descriptor and is not inserted into the main tree, and the
\* build goes on; the build of S3 succeeds with the orphans [7] and the tree
\* 0 -> 1, that of S5 with 10 and 20 as orphans and no root folder.
C8_OrphanAppended ==
    /\ [][OrphanTakenUp => OrphanAppended]_vars
    /\ []((index = S3 /\ Ended) =>
              /\ Built /\ result = 1
              /\ OrphanIdentifierList = << 7 >>
              /\ TreeIdentifiers = {1})
    /\ []((index = S5 /\ Ended) =>
              /\ Built /\ result = 1
              /\ OrphanIdentifiers = {10, 20}
              /\ TreeIdentifiers = {}
              /\ root_folder_item_tree_node = NULL)

\* a built tree with nodes and with an orphan whose parent identifier no
\* leaf of the index and no node of the tree carries
C8_Witness ==
    /\ Built
    /\ TreeIdentifiers # {}
    /\ \E n \in OrphanNodes :
           /\ \A l \in Leaves(index) :
                  index[l].identifier # LeafOf(n).parent_identifier
           /\ \A m \in TreeNodes :
                  descriptor_identifier(m) # LeafOf(n).parent_identifier

\* create_leaf_node is about to insert the leaf on top of the stack, which
\* is not self-parented, under `parent', the node its search has found
LeafInsertedUnder(parent) ==
    /\ Running
    /\ Top.function = "create_leaf_node"
    /\ \/ LeafTakenUp
       \/ Top.at = "read_ahead"
    /\ index[Top.node].identifier # index[Top.node].parent_identifier
    /\ ParentSearch.result = 1
    /\ ParentSearch.node = parent

\* the descriptor create_leaf_node holds for the leaf on top of the stack
\* once the step is taken
PendingDescriptor ==
    IF Top.at = "entry" THEN Len(descriptors) + 1 ELSE Top.item_descriptor

\* the sub node `first' of `parent' is kept as it is, with its descriptor,
\* the sub nodes of `parent' are as they were, the descriptor of the new
\* leaf is freed, and create_leaf_node returns without an error
DuplicateDiscarded(parent, first) ==
    /\ nodes'[parent] = nodes[parent]
    /\ nodes'[first] = nodes[first]
    /\ descriptors'[nodes[first].value] = descriptors[nodes[first].value]
    /\ descriptors'[PendingDescriptor].freed = 1
    /\ descriptors'[PendingDescriptor].leaf = Top.node
    /\ \A n \in DOMAIN nodes' : ~nodes'[n].freed => nodes'[n].value # PendingDescriptor
    /\ stack' = Pop
    /\ ~failing'

\* C9: a leaf inserted under a parent that has a sub node of the same
\* descriptor identifier leaves that sub node, its data and local descriptors
\* identifiers and the parent's sub nodes as they are; the new descriptor is
\* freed and the build goes on.  The build of S4 succeeds with one node
\* for 5, that of the first leaf, and the descriptor of the second freed.
C9_FirstInsertedKept ==
    /\ [][ \A parent \in DOMAIN nodes :
               \A first \in SubNodeSet(parent) :
                   (/\ LeafInsertedUnder(parent)
                    /\ descriptor_identifier(first) = index[Top.node].identifier)
                       => DuplicateDiscarded(parent, first) ]_vars
    /\ []((index = S4 /\ Ended) =>
              /\ Built /\ result = 1
              /\ \E n \in MainTreeNodes :
                     /\ { m \in MainTreeNodes : descriptor_identifier(m) = 5 } = {n}
                     /\ DescriptorOf(n).leaf = 3
                     /\ DescriptorOf(n).data_identifier = index[3].data_identifier
                     /\ DescriptorOf(n).local_descriptors_identifier
                            = index[3].local_descriptors_identifier
              /\ \E d \in DOMAIN descriptors :
                     descriptors[d].leaf = 4 /\ descriptors[d].freed = 1)

\* a built tree with a node under the parent of which a later leaf of the
\* same identifier and other data was discarded
C9_Witness ==
    /\ Built
    /\ \E n \in MainTreeNodes : \E d \in DOMAIN descriptors :
           /\ n # root_folder_item_tree_node
           /\ descriptors[d].freed = 1
           /\ descriptors[d].leaf > DescriptorOf(n).leaf
           /\ descriptors[d].descriptor_identifier = descriptor_identifier(n)
           /\ descriptors[d].data_identifier # DescriptorOf(n).data_identifier
           /\ index[descriptors[d].leaf].parent_identifier = LeafOf(n).parent_identifier

\* an index with two or more leaves that are self-parented, all of them
\* readable, not deleted, with an identifier of 32 bits
VisibleSelfParented ==
    { l \in SelfParentedLeaves \cap VisibleLeaves : index[l].identifier_upper = 0 }

\* C10 as stated: a self-parented leaf processed while the root folder
\* handle is set makes the build fail; the build of an index with two
\* self-parented leaves fails.
C10_DuplicateRootFails ==
    /\ [][(SelfParentedTakenUp /\ root_folder_item_tree_node # NULL) => failing']_vars
    /\ [](failing => state = "building")
    /\ []((Cardinality(VisibleSelfParented) >= 2 /\ Ended) => state = "failed")

\* The step alone: a self-parented leaf processed while the root folder
\* handle is set makes create_leaf_node fail, and a build in which a
\* function has failed does not end built.
DuplicateRootStepFails ==
    /\ [][(SelfParentedTakenUp /\ root_folder_item_tree_node # NULL) => failing']_vars
    /\ [][(failing /\ Ended') => state' = "failed"]_vars
    /\ [][failing => (failing' \/ state' = "failed")]_vars

\* create_node is entered, within the recursion bound, on an index node
\* whose number of sub nodes cannot be read
ProbeFails ==
    /\ Running
    /\ Top.function = "create_node"
    /\ Top.at = "entry"
    /\ Top.recursion_depth <= LIBPFF_MAXIMUM_ITEM_TREE_RECURSION_DEPTH
    /\ ~index[Top.node].readable

\* C11: when the number of sub nodes of an index node cannot be read, at any
\* level and also in a read-ahead, create_node returns 1 for that node and
\* adds nothing to the tree or the orphan list, and the caller goes on; no
\* node is ever made from an unreadable index node.  With no other error the
\* build succeeds with the partial tree: an index with an unreadable root
\* ends with the synthetic root alone, the index of two levels with the
\* nodes 3 and 4.
C11_ProbeFailureSkipped ==
    /\ [][ProbeFails =>
              /\ stack' = Pop
              /\ ~failing'
              /\ UNCHANGED <<nodes, descriptors, orphan_node_list,
                             root_folder_item_tree_node, root_node, state>>]_vars
    /\ [](\A n \in DOMAIN nodes : DescriptorOf(n).leaf # NULL => LeafOf(n).readable)
    /\ []((~index[1].readable /\ Ended) =>
              /\ Built /\ result = 1
              /\ TreeNodes = {root_node}
              /\ orphan_node_list = << >>)
    /\ []((index = UnreadableBranch /\ Ended) =>
              /\ Built /\ result = 1
              /\ TreeIdentifiers = {3, 4}
              /\ orphan_node_list = << >>)

\* a build that has skipped an unreadable leaf reached by a read-ahead and
\* gone on to make an orphan of the leaf that asked for it
C11_Witness ==
    /\ Built
    /\ \E n \in OrphanNodes : \E l \in Leaves(index) :
           /\ ~index[l].readable
           /\ index[l].identifier = LeafOf(n).parent_identifier

\* the recursion depths of the frames: 0 at the root of the index, the same
\* from create_node to the create_leaf_node it calls, one more from a frame
\* to the create_node it calls for a sub node or a read-ahead
DepthsCounted ==
    \A i \in DOMAIN stack :
        IF i = 1
        THEN stack[i].function = "create_node" /\ stack[i].node = 1
             /\ stack[i].recursion_depth = 0
        ELSE IF stack[i].function = "create_leaf_node"
        THEN /\ stack[i - 1].function = "create_node"
             /\ stack[i].node = stack[i - 1].node
             /\ stack[i].recursion_depth = stack[i - 1].recursion_depth
        ELSE stack[i].recursion_depth = stack[i - 1].recursion_depth + 1

AtEntry(recursion_depth) ==
    /\ Running
    /\ Top.at = "entry"
    /\ Top.recursion_depth = recursion_depth

\* C12: the recursion depth is 0 at the root of the index and grows by one
\* with each descent into a sub node and each read-ahead; a call entered at
\* the bound is not refused for its depth (create_node goes on to the leaf, a
\* leaf that is neither the root folder nor out of bounds and whose search
\* does not fail is placed or read ahead for); a call entered one past the
\* bound fails, changes nothing, and the build ends failed.
C12_DepthBound ==
    /\ []DepthsCounted
    /\ [][(AtEntry(LIBPFF_MAXIMUM_ITEM_TREE_RECURSION_DEPTH)
               /\ Top.function = "create_node")
              => ~failing']_vars
    /\ [][(AtEntry(LIBPFF_MAXIMUM_ITEM_TREE_RECURSION_DEPTH)
               /\ Top.function = "create_leaf_node"
               /\ index[Top.node].identifier_upper = 0
               /\ index[Top.node].identifier # index[Top.node].parent_identifier
               /\ ParentSearch.result # -1)
              => ~failing']_vars
    /\ [][AtEntry(LIBPFF_MAXIMUM_ITEM_TREE_RECURSION_DEPTH + 1)
              => /\ failing'
                 /\ stack' = Pop
                 /\ UNCHANGED <<nodes, descriptors, orphan_node_list,
                                root_folder_item_tree_node>>]_vars
    /\ [][failing => (failing' \/ (state' = "failed" /\ result' = -1))]_vars
    /\ []((index = ReadAheadChain /\ Ended) =>
              /\ Built
              /\ TreeIdentifiers = 1 .. LIBPFF_MAXIMUM_ITEM_TREE_RECURSION_DEPTH)

\* a build that has failed after a call was entered one past the bound
C12_Witness ==
    /\ state = "failed"
    /\ \E l \in Leaves(index) : \E m \in Leaves(index) :
           /\ l # m
           /\ VisibleLeaves = Leaves(index)
           /\ DistinctIdentifiers
           /\ index[l].identifier_upper = 0 /\ index[m].identifier_upper = 0
           /\ index[l].parent_identifier = index[m].identifier
           /\ index[m].parent_identifier = index[l].identifier

\* the parent chain of leaf l does not end within the given number of steps:
\* each leaf on it has a parent identifier other than its own and other than
\* 0 that another leaf of the index carries
RECURSIVE ChainGoesOn(_, _)
ChainGoesOn(l, steps) ==
    IF steps = 0 THEN TRUE
    ELSE /\ index[l].parent_identifier # 0
         /\ index[l].parent_identifier # index[l].identifier
         /\ \E m \in Leaves(index) : index[m].identifier = index[l].parent_identifier
         /\ ChainGoesOn(LeafWithIdentifier(index[l].parent_identifier), steps - 1)

\* an index of readable, not deleted leaves with distinct identifiers, at
\* most one of them self-parented, where the parent chain of some leaf runs
\* into a cycle (it goes on for more steps than there are leaves)
ParentCycle ==
    /\ VisibleLeaves = Leaves(index)
    /\ DistinctIdentifiers
    /\ \A l \in Leaves(index) : index[l].identifier_upper = 0
    /\ Cardinality(SelfParentedLeaves) <= 1
    /\ \E l \in Leaves(index) : ChainGoesOn(l, Len(index))

\* C13: every build that has started ends, whatever the index; the build of
\* an index with a parent cycle ends failed, and the first failure of that
\* build is the refusal of a call entered past the recursion bound.
C13_BuildTerminates ==
    /\ (state = "building") ~> Ended
    /\ []((ParentCycle /\ Ended) => (state = "failed" /\ result = -1))
    /\ [][(ParentCycle /\ ~failing /\ failing')
              => Top.recursion_depth > LIBPFF_MAXIMUM_ITEM_TREE_RECURSION_DEPTH]_vars

\* the failed build of an index with a parent cycle next to a leaf that is
\* not on it
C13_Witness ==
    /\ ParentCycle
    /\ state = "failed"
    /\ \E l \in Leaves(index) : ~ChainGoesOn(l, Len(index))

\* create_leaf_node is at the identifier check of a leaf whose identifier
\* does not fit 32 bits
IdentifierOverflows ==
    /\ Running
    /\ Top.function = "create_leaf_node"
    /\ Top.at = "entry"
    /\ Top.recursion_depth <= LIBPFF_MAXIMUM_ITEM_TREE_RECURSION_DEPTH
    /\ index[Top.node].identifier_upper > 0

\* C14: the processing of a leaf whose identifier exceeds UINT32_MAX fails
\* without making a descriptor or a node, the build then ends failed, and
\* no node of the tree or of the orphan list ever stands for such a leaf.
C14_IdentifierOverflowFails ==
    /\ [][IdentifierOverflows =>
              /\ failing'
              /\ UNCHANGED <<descriptors, orphan_node_list>>
              /\ DOMAIN nodes' \subseteq DOMAIN nodes]_vars
    /\ [](\A n \in DOMAIN nodes :
              DescriptorOf(n).leaf # NULL => LeafOf(n).identifier_upper = 0)
    /\ [](\A d \in DOMAIN descriptors :
              descriptors[d].leaf # NULL => index[descriptors[d].leaf].identifier_upper = 0)
    /\ []((Ended /\ \E l \in VisibleLeaves : index[l].identifier_upper > 0)
              => (state = "failed" /\ result = -1))

\* a build that has failed at an oversized identifier after it has placed
\* leaves before it, one of them in the orphan list
C14_Witness ==
    /\ state = "failed"
    /\ orphan_node_list # << >>
    /\ \E l \in VisibleLeaves : index[l].identifier_upper > 0
    /\ \A l \in VisibleLeaves : index[l].identifier # index[l].parent_identifier
    /\ DistinctIdentifiers

\* C15: the build of an index without leaves (a root that is not a leaf and
\* has no sub nodes) succeeds with a tree of the synthetic root alone
\* (descriptor identifier 0, no sub nodes), an empty orphan list and no
\* root folder node.
C15_EmptyIndex ==
    (Leaves(index) = {} /\ Ended) =>
        /\ Built
        /\ result = 1
        /\ root_node # NULL
        /\ TreeNodes = {root_node}
        /\ SubNodeSet(root_node) = {}
        /\ descriptor_identifier(root_node) = 0
        /\ orphan_node_list = << >>
        /\ root_folder_item_tree_node = NULL

\* the built tree of the index whose readable, not deleted root has no sub
\* nodes
C15_Witness ==
    /\ Built
    /\ Len(index) = 1
    /\ index[1].readable /\ ~index[1].is_deleted /\ ~index[1].is_leaf
    /\ index[1].sub_nodes = << >>
    /\ TreeNodes = {root_node}

\* the last call was get_sub_node_by_identifier on a node, with an unset
\* output reference
SubNodeLookedUp ==
    /\ call.function = "get_sub_node_by_identifier"
    /\ call.object # NULL
    /\ call.slot = NULL

\* the positions among the sub nodes of the node of the call that carry the
\* identifier of the call
SubNodeHits ==
    { i \in DOMAIN nodes[call.object].sub_nodes :
          descriptor_identifier(nodes[call.object].sub_nodes[i]) = call.identifier }

\* C17: get_sub_node_by_identifier on a node scans the sub nodes of that node
\* only, from the first on: it returns 1 with the first sub node that carries
\* the identifier, 0 with the output left unset when none does; what it
\* returns is a sub node of the node, never the node or a deeper node.
C17_SingleLevelScan ==
    SubNodeLookedUp =>
        /\ SubNodeHits = {} => (call.result = 0 /\ call.out = NULL)
        /\ SubNodeHits # {} =>
               /\ call.result = 1
               /\ \E i \in SubNodeHits :
                      /\ \A j \in SubNodeHits : i <= j
                      /\ call.out = nodes[call.object].sub_nodes[i]
        /\ call.result = 1 =>
               /\ call.out # call.object
               /\ nodes[call.out].parent_node = call.object

\* a lookup of an identifier that a sub node of a sub node carries, under a
\* node with sub nodes, has found nothing
C17_Witness ==
    /\ SubNodeLookedUp
    /\ call.result = 0
    /\ nodes[call.object].sub_nodes # << >>
    /\ \E n \in SubTree(nodes, call.object) :
           /\ n # call.object
           /\ descriptor_identifier(n) = call.identifier

\* the last call was get_node_by_identifier with a NULL tree, a NULL output
\* pointer or an output reference that is set already
InvalidLookupArguments ==
    /\ call.function = "get_node_by_identifier"
    /\ \/ call.object = NULL
       \/ call.slot = NULL_POINTER
       \/ call.slot \notin {NULL, NULL_POINTER}

\* C19 as stated: get_node_by_identifier returns -1 for every identifier
\* when the tree is NULL, the output pointer is NULL or the output reference
\* is set already; it returns 0 only for valid arguments.
C19_InvalidArgumentsFail ==
    /\ InvalidLookupArguments => call.result = -1
    /\ (call.function = "get_node_by_identifier" /\ call.result = 0)
           => ~InvalidLookupArguments

\* the step is a call of append_identifier on a node
Appends ==
    /\ call = NoCall
    /\ call'.function = "append_identifier"
    /\ call'.object # NULL

\* C18: append_identifier on a node returns 1 and makes one new node, the
\* last sub node of that node, without sub nodes, whose descriptor carries
\* the four values of the call; no compare and no unique check is made (the
\* number of sub nodes grows by one whatever identifiers the sub nodes
\* carry), and every other node, every descriptor, the order of the sub
\* nodes there were and the orphan list stay as they are.
C18_AppendsLast ==
    [][Appends =>
          LET parent == call'.object
              new    == Len(nodes) + 1
          IN  /\ call'.result = 1
              /\ DOMAIN nodes' = DOMAIN nodes \cup {new}
              /\ nodes'[parent] =
                     [nodes[parent] EXCEPT !.sub_nodes = Append(@, new)]
              /\ Len(nodes'[parent].sub_nodes) = Len(nodes[parent].sub_nodes) + 1
              /\ nodes'[new].parent_node = parent
              /\ nodes'[new].sub_nodes = << >>
              /\ ~nodes'[new].freed
              /\ nodes'[new].value = Len(descriptors) + 1
              /\ DOMAIN descriptors' = DOMAIN descriptors \cup {Len(descriptors) + 1}
              /\ descriptors'[nodes'[new].value].descriptor_identifier = call'.identifier
              /\ descriptors'[nodes'[new].value].data_identifier = call'.arguments[1]
              /\ descriptors'[nodes'[new].value].local_descriptors_identifier
                     = call'.arguments[2]
              /\ descriptors'[nodes'[new].value].recovered = call'.arguments[3]
              /\ descriptors'[nodes'[new].value].freed = 0
              /\ \A n \in DOMAIN nodes \ {parent} : nodes'[n] = nodes[n]
              /\ \A d \in DOMAIN descriptors : descriptors'[d] = descriptors[d]
              /\ UNCHANGED <<root_node, orphan_node_list, root_folder_item_tree_node>>]_vars

\* an identifier has been appended under a node that had a sub node with
\* that identifier and a sub node with a greater one: the new node is the
\* last sub node, after both
C18_Witness ==
    /\ call.function = "append_identifier"
    /\ call.result = 1
    /\ LET sub_nodes == nodes[call.object].sub_nodes
       IN  /\ Len(sub_nodes) >= 3
           /\ descriptor_identifier(sub_nodes[Len(sub_nodes)]) = call.identifier
           /\ DescriptorOf(sub_nodes[Len(sub_nodes)]).leaf = NULL
           /\ \E i \in 1 .. Len(sub_nodes) - 1 :
                  descriptor_identifier(sub_nodes[i]) = call.identifier
           /\ \E i \in 1 .. Len(sub_nodes) - 1 :
                  descriptor_identifier(sub_nodes[i]) > call.identifier

\* the nodes that own something when the build has returned: those of the
\* tree and those of the orphan list
OwningNodes == { n \in TreeNodes \cup OrphanNodes : ~nodes[n].freed }

\* descriptor d is the value of exactly one owning node, or has been freed
OwnedOrFreed(d) ==
    \/ descriptors[d].freed >= 1
    \/ Cardinality({ n \in OwningNodes : nodes[n].value = d }) = 1

\* C20 as stated: when the build has returned, with success or on any
\* failure path, every descriptor made is owned by exactly one node of the
\* tree or of the orphan list or has been freed, and every node is in the
\* tree, in the orphan list or freed; after the free of the tree only what
\* the orphan list owns is left.
C20_NothingLeaked ==
    /\ Ended =>
           /\ \A d \in DOMAIN descriptors : OwnedOrFreed(d)
           /\ \A n \in DOMAIN nodes : nodes[n].freed \/ n \in OwningNodes
    /\ state = "freed" =>
           /\ TreeNodes = {}
           /\ \A d \in DOMAIN descriptors : OwnedOrFreed(d)
           /\ \A n \in DOMAIN nodes : nodes[n].freed \/ n \in OrphanNodes

\* C21: libpff_item_tree_initialize returns -1 and changes nothing when its
\* argument is NULL or the reference is set already, and otherwise leaves a
\* tree without a root node (or, when the allocation or the clearing fails,
\* -1 and a NULL reference); libpff_item_tree_free returns -1 on a NULL
\* argument, 1 without effect on a reference that is NULL, and otherwise
\* resets the reference to NULL whatever the free of the root node returned;
\* the free of a tree that was only initialized returns 1.
C21_TreeLifecycle ==
    /\ [][\A argument \in {NULL_POINTER, item_tree_reference} :
              item_tree_initialize(argument) =>
                  IF argument = NULL_POINTER \/ item_tree_reference # NULL
                  THEN /\ call'.result = -1
                       /\ UNCHANGED <<item_tree_reference, root_node, nodes,
                                      descriptors, state>>
                  ELSE IF fault \in {"memory_allocate", "memory_set"}
                  THEN /\ call'.result = -1
                       /\ item_tree_reference' = NULL
                  ELSE /\ call'.result = 1
                       /\ item_tree_reference' = ItemTree
                       /\ root_node' = NULL]_vars
    /\ [][\A argument \in {NULL_POINTER, item_tree_reference} :
              item_tree_free(argument) =>
                  IF argument = NULL_POINTER
                  THEN /\ call'.result = -1
                       /\ UNCHANGED <<item_tree_reference, root_node, nodes,
                                      descriptors, state>>
                  ELSE IF item_tree_reference = NULL
                  THEN /\ call'.result = 1
                       /\ UNCHANGED <<item_tree_reference, root_node, nodes,
                                      descriptors, state>>
                  ELSE /\ item_tree_reference' = NULL
                       /\ (root_node = NULL \/ fault # "tree_node_free")
                              => call'.result = 1]_vars
    /\ []((call.function = "free" /\ call.slot = ItemTree /\ nodes = << >>)
              => (call.result = 1 /\ item_tree_reference = NULL))

\* the free of a built tree has returned -1 because the free of the root
\* node failed, and the reference is NULL
C21_Witness ==
    /\ call.function = "free"
    /\ call.slot = ItemTree
    /\ call.result = -1
    /\ nodes # << >>
    /\ item_tree_reference = NULL

\* the builder is about to make, at the index node it is at, the call of the
\* cursor that fails there
CursorCallAboutToFail ==
    /\ Running
    /\ Top.recursion_depth <= LIBPFF_MAXIMUM_ITEM_TREE_RECURSION_DEPTH
    /\ LET value == index[Top.node]
       IN  \/ /\ Top.function = "create_node" /\ Top.at = "entry"
              /\ \/ value.fails = "is_deleted"
                 \/ value.fails = "is_leaf" /\ ~value.is_deleted
           \/ /\ Top.function = "create_node" /\ Top.at = "loop"
              /\ Top.sub_node_index < Len(value.sub_nodes)
              /\ value.fails = "get_sub_node_by_index"
           \/ /\ Top.function = "create_leaf_node" /\ Top.at = "entry"
              /\ \/ value.fails \in {"get_node_value", "node_value_missing"}
                 \/ /\ value.fails = "get_leaf_node_by_identifier"
                    /\ value.identifier # value.parent_identifier
                    /\ ParentSearch.result = 0

\* the nodes of the flat part of the index at which a failing call is made
\* whatever the other leaves are: the root, and each leaf for the calls made
\* before the search for its parent
SurelyCalled ==
    { n \in DOMAIN index :
          \/ n = 1 /\ index[1].fails \in {"is_deleted", "is_leaf"}
          \/ n = 1 /\ index[1].fails = "get_sub_node_by_index"
                   /\ index[1].sub_nodes # << >>
          \/ /\ n \in VisibleLeaves
             /\ index[n].fails \in {"is_deleted", "is_leaf", "get_node_value",
                                    "node_value_missing"} }

\* C23: a call of the cursor other than the probe of the number of sub nodes
\* that fails (is_deleted, is_leaf, get_sub_node_by_index, get_node_value
\* also with a missing value, get_leaf_node_by_identifier), in the walk or
\* in a read-ahead, makes the function fail without placing the leaf; from
\* then on no descriptor and no node is made and nothing is appended to the
\* orphan list, and the build returns -1.
C23_CursorFailureFatal ==
    /\ [][CursorCallAboutToFail =>
              /\ failing'
              /\ Len(nodes') = Len(nodes)
              /\ UNCHANGED orphan_node_list]_vars
    /\ [][failing =>
              /\ failing' \/ (state' = "failed" /\ result' = -1)
              /\ Len(descriptors') = Len(descriptors)
              /\ Len(nodes') = Len(nodes)
              /\ UNCHANGED orphan_node_list]_vars
    /\ []((Ended /\ SurelyCalled # {}) => (state = "failed" /\ result = -1))

\* a build has failed because the lookup of a parent leaf failed, in the
\* read-ahead for an earlier leaf that the build had taken up
C23_Witness ==
    /\ state = "failed"
    /\ \E l \in Leaves(index) : \E m \in Leaves(index) :
           /\ l < m
           /\ index[l].parent_identifier = index[m].identifier
           /\ index[l].identifier # index[m].identifier
           /\ index[m].fails = "get_leaf_node_by_identifier"
           /\ index[m].parent_identifier \notin
                  {0, index[m].identifier, index[l].identifier}
           /\ \A k \in Leaves(index) : k < m => index[k].identifier # index[k].parent_identifier
           /\ Len(descriptors) >= 3

\* create_node is at a deleted index node that it can read
DeletedReached ==
    /\ Running
    /\ Top.function = "create_node"
    /\ Top.at = "entry"
    /\ Top.recursion_depth <= LIBPFF_MAXIMUM_ITEM_TREE_RECURSION_DEPTH
    /\ index[Top.node].readable
    /\ index[Top.node].is_deleted

\* the visible leaves whose parent identifier only deleted leaves carry
ChildrenOfDeleted ==
    { l \in VisibleLeaves :
          /\ index[l].parent_identifier # index[l].identifier
          /\ index[l].parent_identifier # 0
          /\ \E m \in Leaves(index) :
                 index[m].identifier = index[l].parent_identifier
          /\ \A m \in Leaves(index) :
                 index[m].identifier = index[l].parent_identifier
                     => (index[m].is_deleted /\ index[m].readable
                         /\ index[m].identifier_upper = 0) }

BackFromReadAhead ==
    /\ Running
    /\ Top.function = "create_leaf_node"
    /\ Top.at = "read_ahead"

\* C25: what create_leaf_node uses after the read-ahead are its copies of
\* the identifier and the parent identifier and the descriptor it made
\* before: they are the values of its own leaf, whatever leaves the
\* read-ahead has read since, and the leaf is placed by them: under a node
\* that carries its parent identifier, or in the orphan list when the tree
\* has no such node.
C25_CopiesUsedAfterReadAhead ==
    /\ [](\A i \in DOMAIN stack :
              stack[i].at = "read_ahead" =>
                  /\ stack[i].identifier = index[stack[i].node].identifier
                  /\ stack[i].parent_identifier = index[stack[i].node].parent_identifier
                  /\ descriptors[stack[i].item_descriptor].leaf = stack[i].node
                  /\ descriptors[stack[i].item_descriptor].descriptor_identifier
                         = index[stack[i].node].identifier
                  /\ descriptors[stack[i].item_descriptor].data_identifier
                         = index[stack[i].node].data_identifier
                  /\ descriptors[stack[i].item_descriptor].local_descriptors_identifier
                         = index[stack[i].node].local_descriptors_identifier)
    /\ [][(BackFromReadAhead /\ Len(nodes') > Len(nodes)) =>
              LET new == Len(nodes')
                  carriers == { n \in TreeNodes :
                                    descriptor_identifier(n)
                                        = index[Top.node].parent_identifier }
              IN  /\ nodes'[new].value = Top.item_descriptor
                  /\ IF carriers = {}
                     THEN orphan_node_list' = Append(orphan_node_list, new)
                     ELSE /\ UNCHANGED orphan_node_list
                          /\ \/ nodes'[new].freed
                             \/ nodes'[new].parent_node \in carriers]_vars

\* a leaf has been placed after a read-ahead that read a leaf with another
\* parent identifier than its own
C25_Witness ==
    \E n \in MainTreeNodes :
        /\ nodes[n].parent_node # root_node
        /\ nodes[n].value < nodes[nodes[n].parent_node].value
        /\ LeafOf(n).parent_identifier
               # LeafOf(nodes[n].parent_node).parent_identifier

\* sequence s with some elements inserted makes sequence t: the elements of
\* s are in t, in the same order
RECURSIVE KeptInOrder(_, _)
KeptInOrder(s, t) ==
    IF s = << >> THEN TRUE
    ELSE IF t = << >> THEN FALSE
    ELSE IF Head(s) = Head(t) THEN KeptInOrder(Tail(s), Tail(t))
    ELSE KeptInOrder(s, Tail(t))

\* C26: in every step of a build that has not failed, each node there is
\* stays, with its value, its parent and its sub nodes in their order (new
\* sub nodes may come between them); the nodes of the main tree stay in the
\* main tree; the orphan list keeps its elements and gets new ones at its
\* end only; and no node of the orphan list is ever in the main tree.
C26_OnlyGrows ==
    /\ [][(state = "building" /\ ~failing /\ ~failing') =>
              /\ \A n \in DOMAIN nodes :
                     ~nodes[n].freed =>
                         /\ n \in DOMAIN nodes'
                         /\ ~nodes'[n].freed
                         /\ nodes'[n].value = nodes[n].value
                         /\ nodes'[n].parent_node = nodes[n].parent_node
                         /\ KeptInOrder(nodes[n].sub_nodes, nodes'[n].sub_nodes)
              /\ TreeNodes \subseteq TreeNodes'
              /\ Len(orphan_node_list') >= Len(orphan_node_list)
              /\ SubSeq(orphan_node_list', 1, Len(orphan_node_list)) = orphan_node_list
              /\ \A d \in DOMAIN descriptors :
                     descriptors[d].freed = 0 =>
                         \/ descriptors'[d] = descriptors[d]
                         \/ d = Len(descriptors) /\ d = Top.item_descriptor]_vars
    /\ [](state \in {"building", "built"} => OrphanNodes \cap TreeNodes = {})

\* a built tree with a node in the orphan list whose parent identifier a node
\* of the main tree carries
C26_Witness ==
    /\ Built
    /\ \E n \in OrphanNodes :
           LeafOf(n).parent_identifier \in TreeIdentifiers

\* the nodes below and including node n in pre-order: a node before its
\* descendants, the sub nodes from the first to the last
RECURSIVE PreOrder(_)
RECURSIVE PreOrderFrom(_, _)
PreOrder(n) == << n >> \o PreOrderFrom(nodes[n].sub_nodes, 1)

PreOrderFrom(sub_nodes, i) ==
    IF i > Len(sub_nodes) THEN << >>
    ELSE PreOrder(sub_nodes[i]) \o PreOrderFrom(sub_nodes, i + 1)

\* the nodes of the tree that carry the identifier, in pre-order
Carriers(item_identifier) ==
    LET Carries(n) == descriptor_identifier(n) = item_identifier
    IN  SelectSeq(PreOrder(root_node), Carries)

\* C27: a lookup that returns 1 returns the first node in pre-order from
\* the synthetic root that carries the identifier, and a lookup of an
\* identifier that a node carries returns 1 when no node of the tree lies
\* deeper than the recursion bound.
C27_FirstInPreOrder ==
    [][found' # found =>
           LET carriers == Carriers(found'.item_identifier)
           IN  /\ found'.result = 1 =>
                      /\ carriers # << >>
                      /\ found'.node = Head(carriers)
               /\ ( /\ carriers # << >>
                    /\ \A n \in TreeNodes :
                           Depth(n) <= LIBPFF_MAXIMUM_ITEM_TREE_RECURSION_DEPTH )
                      => found'.result = 1]_vars

\* a lookup after an append has returned a node although another node, less
\* deep in the tree, carries the identifier too
C27_Witness ==
    /\ call.function = "append_identifier"
    /\ call.result = 1
    /\ found.called
    /\ found.result = 1
    /\ \E m \in TreeNodes :
           /\ m # found.node
           /\ descriptor_identifier(m) = found.item_identifier
           /\ Depth(m) < Depth(found.node)

\* the nodes of the tree that lie deeper below the synthetic root than a
\* lookup descends
BelowBound == { n \in TreeNodes : Depth(n) > LIBPFF_MAXIMUM_ITEM_TREE_RECURSION_DEPTH }

\* position of node n in the pre-order sequence of the tree
PreOrderPosition(n) ==
    LET order == PreOrder(root_node)
    IN  CHOOSE i \in 1 .. Len(order) : order[i] = n

\* the lookup has to go below the recursion bound: a node below the bound
\* comes in pre-order before every node that carries the identifier
DescendsBelowBound(item_identifier) ==
    \E n \in BelowBound :
        \A m \in TreeNodes :
            descriptor_identifier(m) = item_identifier =>
                PreOrderPosition(n) <= PreOrderPosition(m)

\* C28: a lookup in the built tree returns 0 only when no node of the tree
\* carries the identifier, a node it returns with 1 is a node of the tree
\* that carries it, and a lookup that has to go below the recursion bound
\* returns -1.
C28_NeverTruncates ==
    (found.called /\ state = "built") =>
        /\ found.result \in {-1, 0, 1}
        /\ found.result = 0 =>
               /\ \A n \in TreeNodes : descriptor_identifier(n) # found.item_identifier
               /\ found.node = NULL
        /\ found.result = 1 =>
               /\ found.node \in TreeNodes
               /\ descriptor_identifier(found.node) = found.item_identifier
        /\ DescendsBelowBound(found.item_identifier) => found.result = -1

\* a lookup of an identifier that only a node below the recursion bound
\* carries has returned -1
C28_Witness ==
    /\ found.called
    /\ state = "built"
    /\ found.result = -1
    /\ \E n \in BelowBound : descriptor_identifier(n) = found.item_identifier
    /\ \A n \in TreeNodes \ BelowBound : descriptor_identifier(n) # found.item_identifier

\* a step in which a caller looks a node up, in the tree or under a node
Navigation ==
    /\ call' # call
    /\ call'.function \in {"get_node_by_identifier", "get_sub_node_by_identifier"}

\* C29: a lookup in the tree or under a node, whatever it returns, leaves
\* the root node, the nodes, the descriptors, the orphan list and the root
\* folder node as they are, and leaves the output argument as it was passed
\* when it does not return 1.
C29_NavigationReadOnly ==
    [][Navigation =>
           /\ UNCHANGED <<root_node, nodes, descriptors, orphan_node_list,
                          root_folder_item_tree_node>>
           /\ call'.result \in {-1, 0, 1}
           /\ call'.result # 1 => call'.out = call'.slot
           /\ call'.result = 1 => call'.slot = NULL /\ call'.out \in LiveNodes]_vars

\* a lookup under a node with sub nodes, in a tree with a root folder and
\* an orphan, has returned 0 and has left the output argument unset
C29_Witness ==
    /\ call.function = "get_sub_node_by_identifier"
    /\ call.object # NULL
    /\ nodes[call.object].sub_nodes # << >>
    /\ call.result = 0
    /\ call.out = NULL
    /\ orphan_node_list # << >>
    /\ root_folder_item_tree_node # NULL

\* C30: libpff_item_tree_create called on a tree that has a root node
\* returns -1 and leaves the root node, the nodes, the descriptors, the
\* orphan list and the root folder node as they are; no build is started.
C30_BuiltOnce ==
    [][(call' # call /\ call'.function = "create" /\ root_node # NULL) =>
           /\ call'.result = -1
           /\ UNCHANGED <<root_node, nodes, descriptors, orphan_node_list,
                          root_folder_item_tree_node, stack, state, result>>]_vars

\* create has been called on a built tree with sub nodes, an orphan and a
\* root folder, and has returned -1
C30_Witness ==
    /\ call.function = "create"
    /\ call.result = -1
    /\ state = "built"
    /\ nodes[root_node].sub_nodes # << >>
    /\ orphan_node_list # << >>
    /\ root_folder_item_tree_node # NULL

\* the nodes of the main tree made for leaf l of the index
NodesOfLeaf(l) == { n \in MainTreeNodes : DescriptorOf(n).leaf = l }

\* create_leaf_node is called by a read-ahead, not by the walk
InReadAhead == \E i \in DOMAIN stack : stack[i].at = "read_ahead"

\* the walk is about to take up a leaf that is not self-parented and that a
\* read-ahead has put into the main tree before
SecondVisit ==
    /\ Running
    /\ Top.function = "create_leaf_node"
    /\ Top.at = "entry"
    /\ ~failing
    /\ ~InReadAhead
    /\ index[Top.node].identifier # index[Top.node].parent_identifier
    /\ NodesOfLeaf(Top.node) # {}

\* the leaf create_leaf_node has made its read-ahead for
ReadAheadLeaf == ReadAhead(Top.parent_identifier)

\* the step leaves every node, the orphan list and the root folder node as
\* they are, and create_leaf_node returns without an error
NothingChanged ==
    /\ LiveNodes' = LiveNodes
    /\ \A n \in LiveNodes : nodes'[n] = nodes[n]
    /\ orphan_node_list' = orphan_node_list
    /\ root_folder_item_tree_node' = root_folder_item_tree_node
    /\ stack' = Pop
    /\ ~failing'

C32_OrphansOncePerLeaf ==
    (Built /\ DistinctIdentifiers) =>
        /\ \A i, j \in DOMAIN orphan_node_list :
               OrphanIdentifierList[i] = OrphanIdentifierList[j] => i = j
        /\ index = S5 => Len(orphan_node_list) = 2

\* C33: after a build that has succeeded on an index with a self-parented
\* leaf that is readable and not deleted, the root folder node is set and
\* is a node of the main tree that carries the identifier of such a leaf.
C33_RootFolderNotDropped ==
    (Built /\ VisibleSelfParented # {}) =>
        /\ root_folder_item_tree_node # NULL
        /\ root_folder_item_tree_node \in MainTreeNodes
        /\ \E l \in VisibleSelfParented :
               descriptor_identifier(root_folder_item_tree_node) = index[l].identifier

\* create_leaf_node is about to take up a leaf with an identifier other
\* than 0 and the parent identifier 0
ChildOfZeroTakenUp ==
    /\ LeafTakenUp
    /\ ~failing
    /\ index[Top.node].fails = "none"
    /\ index[Top.node].identifier # 0
    /\ index[Top.node].parent_identifier = 0

\* the sub nodes of the synthetic root after the step are those before it
\* and one new node, which carries the descriptor of the leaf taken up
NewSubNodeOfRoot ==
    LET node == Len(nodes) + 1
    IN  /\ Len(nodes') = node
        /\ ~nodes'[node].freed
        /\ nodes'[node].parent_node = root_node
        /\ descriptors'[nodes'[node].value].leaf = Top.node
        /\ descriptors'[nodes'[node].value].freed = 0
        /\ Len(nodes'[root_node].sub_nodes) = Len(nodes[root_node].sub_nodes) + 1
        /\ \E i \in DOMAIN nodes'[root_node].sub_nodes :
               nodes'[root_node].sub_nodes[i] = node
        /\ KeptInOrder(nodes[root_node].sub_nodes, nodes'[root_node].sub_nodes)
        /\ \A i, j \in DOMAIN nodes'[root_node].sub_nodes :
               i < j => descriptors'[nodes'[nodes'[root_node].sub_nodes[i]].value].descriptor_identifier
                            < descriptors'[nodes'[nodes'[root_node].sub_nodes[j]].value].descriptor_identifier

\* C34: a leaf with an identifier other than 0 and the parent identifier 0
\* finds the synthetic root as its parent at once; the step makes no
\* read-ahead, returns without an error, leaves the orphan list as it is,
\* and puts a node for the leaf among the sub nodes of the synthetic root,
\* in ascending order, unless a sub node carries the identifier already.
C34_ChildOfSyntheticRoot ==
    [][ChildOfZeroTakenUp =>
           /\ ParentSearch.result = 1
           /\ ParentSearch.node = root_node
           /\ stack' = Pop
           /\ ~failing'
           /\ orphan_node_list' = orphan_node_list
           /\ IF \E n \in SubNodeSet(root_node) :
                     descriptor_identifier(n) = index[Top.node].identifier
              THEN /\ LiveNodes' = LiveNodes
                   /\ \A n \in LiveNodes : nodes'[n] = nodes[n]
              ELSE NewSubNodeOfRoot]_vars

\* a built tree whose synthetic root has two sub nodes made for leaves with
\* the parent identifier 0, the second leaf of the index before the first
C34_Witness ==
    /\ Built
    /\ \E i, j \in DOMAIN nodes[root_node].sub_nodes :
           LET m == nodes[root_node].sub_nodes[i]
               n == nodes[root_node].sub_nodes[j]
           IN  /\ i < j
               /\ LeafOf(m).parent_identifier = 0
               /\ LeafOf(n).parent_identifier = 0
               /\ LeafOf(m).identifier # 0
               /\ DescriptorOf(n).leaf < DescriptorOf(m).leaf

\* C35: no descriptor is freed more than once, whichever libcdata call of
\* the builder fails; a descriptor that the root folder node has taken and
\* whose node is not inserted under the synthetic root is freed once.
C35_FreedAtMostOnce ==
    \A d \in DOMAIN descriptors : descriptors[d].freed <= 1

\* the nodes that are not freed
NodesLeft == { n \in DOMAIN nodes : ~nodes[n].freed }

\* C36: after a build that has failed the tree has no root node and every
\* node made for it is freed, with its descriptor (what is left are the
\* nodes of the orphan list); a lookup then returns -1 for every
\* identifier, as it does before the first build; and a further call of
\* libpff_item_tree_create starts a build.
C36_FailedBuildLeavesNoTree ==
    /\ [](state = "failed" =>
              /\ root_node = NULL
              /\ result = -1
              /\ NodesLeft \subseteq OrphanNodes
              /\ \A n \in DOMAIN nodes :
                     (nodes[n].freed /\ nodes[n].value # NULL)
                         => descriptors[nodes[n].value].freed >= 1)
    /\ [][found' # found =>
              (state \in {"initialized", "failed"} =>
                   found'.result = -1 /\ found'.node = NULL)]_vars
    /\ [][(call' # call /\ state = "failed") =>
              /\ call'.function = "create"
              /\ call'.result = 0
              /\ state' = "building"
              /\ root_node' \in NodesLeft'
              /\ nodes'[root_node'].sub_nodes = << >>]_vars

\* after a build that has failed with several nodes made, a lookup has
\* returned -1 and a further build is under way
C36_Witness ==
    /\ found.called
    /\ found.result = -1
    /\ call.function = "create"
    /\ call.result = 0
    /\ state = "building"
    /\ Cardinality({ n \in DOMAIN nodes : nodes[n].freed /\ nodes[n].parent_node # NULL }) >= 2

\* C37: after a build that has failed the root folder node is NULL or a
\* node that is not freed, and a root folder node that is attached to the
\* tree is freed only in the step that frees the tree.
C37_RootFolderHandleValid ==
    /\ [](state = "failed" =>
              \/ root_folder_item_tree_node = NULL
              \/ /\ root_folder_item_tree_node \in DOMAIN nodes
                 /\ ~nodes[root_folder_item_tree_node].freed)
    /\ [][\A n \in DOMAIN nodes :
              ( /\ n = root_folder_item_tree_node
                /\ nodes[n].parent_node # NULL
                /\ ~nodes[n].freed
                /\ nodes'[n].freed )
                  => (root_node # NULL /\ root_node' = NULL)]_vars

====
